---------------------------- MODULE Spec2Model ----------------------------
(***************************************************************************)
(* A model of HOOF++ (PSmerkol/AccordPreprocTools): the dealiaser, the     *)
(* superober and their quantized writers, as they act on one HoofData      *)
(* object.                                                                 *)
(*                                                                         *)
(* A C++ double is modelled as a pair <<n, d>>: the rational n/d in lowest *)
(* terms when d > 0, NaN when n = 0 and d = 0, +infinity and -infinity as  *)
(* <<1, 0>> and <<-1, 0>>.  Rounding of the floating point operations is   *)
(* not modelled; NaN propagation, comparisons with NaN and the casts to    *)
(* int and unsigned char are.                                              *)
(***************************************************************************)
EXTENDS Integers, Sequences, FiniteSets, TLC

VARIABLES
    settings,   \* HoofSettings: the static settings read from the namelist
    data,       \* HoofData: the data handed from worker to worker
    dealiaser,  \* the private members of HoofDealiaser
    superober,  \* the private members of HoofSuperober
    outFile,    \* what the writers have put into the output file
    homogenizer,\* the warnings and errors of HoofHomogenizer
    logFile,    \* the lines written to the log of the current file
    main,       \* the locals of main: the files to come and the counters
    pc          \* the position of the driver in the sequence of calls

vars == <<settings, data, dealiaser, superober, outFile, homogenizer, logFile,
          main, pc>>

-----------------------------------------------------------------------------
(* Doubles *)

RECURSIVE Gcd(_, _)
Gcd(a, b) == IF b = 0 THEN a ELSE Gcd(b, a % b)

Abs(n) == IF n < 0 THEN -n ELSE n

Sign(n) == IF n < 0 THEN -1 ELSE IF n > 0 THEN 1 ELSE 0

dNaN == <<0, 0>>

dInf == <<1, 0>>

dNegInf == <<-1, 0>>

isnan(x) == x[1] = 0 /\ x[2] = 0

isinf(x) == x[1] # 0 /\ x[2] = 0

IsFinite(x) == x[2] > 0

\* the double n/d, d # 0, in lowest terms with a positive denominator
Ratio(n, d) ==
    IF d = 1 THEN <<n, 1>>
    ELSE LET g == Gcd(Abs(n), Abs(d))
         IN  <<Sign(d) * (n \div g), Abs(d) \div g>>

Dbl(n) == <<n, 1>>

DNeg(x) == <<-x[1], x[2]>>

DAdd(x, y) ==
    IF isnan(x) \/ isnan(y) THEN dNaN
    ELSE IF isinf(x) /\ isinf(y) THEN (IF x = y THEN x ELSE dNaN)
    ELSE IF isinf(x) THEN x
    ELSE IF isinf(y) THEN y
    ELSE Ratio(x[1] * y[2] + y[1] * x[2], x[2] * y[2])

DSub(x, y) == DAdd(x, DNeg(y))

DMul(x, y) ==
    IF isnan(x) \/ isnan(y) THEN dNaN
    ELSE IF isinf(x) \/ isinf(y)
         THEN (IF x[1] = 0 \/ y[1] = 0 THEN dNaN
               ELSE <<Sign(x[1]) * Sign(y[1]), 0>>)
    ELSE Ratio(x[1] * y[1], x[2] * y[2])

DDiv(x, y) ==
    IF isnan(x) \/ isnan(y) THEN dNaN
    ELSE IF isinf(y) THEN (IF isinf(x) THEN dNaN ELSE Dbl(0))
    ELSE IF y[1] = 0
         THEN (IF x[1] = 0 THEN dNaN ELSE <<Sign(x[1]), 0>>)
    ELSE IF isinf(x) THEN <<Sign(x[1]) * Sign(y[1]), 0>>
    ELSE Ratio(x[1] * y[2], x[2] * y[1])

\* x < y on doubles: false as soon as one side is NaN
DLt(x, y) ==
    /\ ~isnan(x)
    /\ ~isnan(y)
    /\ IF isinf(x) /\ isinf(y) THEN x[1] < y[1]
       ELSE IF isinf(x) THEN x[1] < 0
       ELSE IF isinf(y) THEN y[1] > 0
       ELSE x[1] * y[2] < y[1] * x[2]

DGt(x, y) == DLt(y, x)

DLe(x, y) == ~isnan(x) /\ ~isnan(y) /\ ~DLt(y, x)

DGe(x, y) == DLe(y, x)

DAbs(x) == <<Abs(x[1]), x[2]>>

\* floor of a finite double
Floor(x) == x[1] \div x[2]

\* (int)x of a finite double: the fraction is discarded (toward zero)
Trunc(x) == Sign(x[1]) * (Abs(x[1]) \div x[2])


-----------------------------------------------------------------------------
(* Angles.  An angle is kept in units of pi, so that HoofAux::Pi is the    *)
(* double 1 wherever it is added to or subtracted from an angle; cos and   *)
(* sin are tabulated on the multiples of pi/2 and pi/3 they are exact on.  *)

\* the angle x (in units of pi) reduced to [0, 2)
Mod2(x) == Ratio(x[1] % (2 * x[2]), x[2])

cos(x) ==
    IF ~IsFinite(x) THEN dNaN
    ELSE LET y == Mod2(x)
         IN  CASE y = Dbl(0) -> Dbl(1)
               [] y = Ratio(1, 3) -> Ratio(1, 2)
               [] y = Ratio(1, 2) -> Dbl(0)
               [] y = Ratio(2, 3) -> Ratio(-1, 2)
               [] y = Dbl(1) -> Dbl(-1)
               [] y = Ratio(4, 3) -> Ratio(-1, 2)
               [] y = Ratio(3, 2) -> Dbl(0)
               [] y = Ratio(5, 3) -> Ratio(1, 2)

sin(x) ==
    IF ~IsFinite(x) THEN dNaN
    ELSE LET y == Mod2(x)
         IN  CASE y = Dbl(0) -> Dbl(0)
               [] y = Ratio(1, 6) -> Ratio(1, 2)
               [] y = Ratio(1, 2) -> Dbl(1)
               [] y = Ratio(5, 6) -> Ratio(1, 2)
               [] y = Dbl(1) -> Dbl(0)
               [] y = Ratio(7, 6) -> Ratio(-1, 2)
               [] y = Ratio(3, 2) -> Dbl(-1)
               [] y = Ratio(11, 6) -> Ratio(-1, 2)

\* HoofAux::linspace(vec, a, b, n): the first n entries of vec become n
\* evenly spaced values on [a, b); vec is left alone when n does not fit
linspace(vec, a, b, n) ==
    IF n > Cardinality(DOMAIN vec) \/ n < 1 THEN vec
    ELSE LET step == DDiv(DSub(b, a), Dbl(n))
         IN  [i \in DOMAIN vec |->
                 IF i < n THEN DAdd(a, DMul(Dbl(i), step)) ELSE vec[i]]

\* std::vector<T>(n, value), indexed from 0
Vec(n, value) == [i \in 0 .. n - 1 |-> value]

Vec2D(n1, n2, value) == Vec(n1, Vec(n2, value))

Vec3D(n1, n2, n3, value) == Vec(n1, Vec(n2, Vec(n3, value)))

\* the doubles of a 2D or 3D vector that are not NaN
Values2D(vec) ==
    UNION {{vec[i][j] : j \in DOMAIN vec[i]} : i \in DOMAIN vec} \ {dNaN}

Values3D(vec) == UNION {Values2D(vec[i]) : i \in DOMAIN vec}

DMin(S) == CHOOSE x \in S : \A y \in S : ~DLt(y, x)

DMax(S) == CHOOSE x \in S : \A y \in S : ~DLt(x, y)

isallnan2D(vec) == Values2D(vec) = {}

isallnan3D(vec) == Values3D(vec) = {}

\* (min, max) over the values that are not NaN, infinite without values
nanminmaxUnchecked(S) ==
    <<IF S = {} THEN dInf ELSE DMin(S), IF S = {} THEN dNegInf ELSE DMax(S)>>

\* HoofAux::nanminmax: (min, max) over the values that are not NaN; an
\* infinite minimum or maximum, as left by a vector without values, reads NaN
nanminmax(S) ==
    LET min == IF S = {} THEN dInf ELSE DMin(S)
        max == IF S = {} THEN dNegInf ELSE DMax(S)
    IN  <<IF isinf(min) THEN dNaN ELSE min, IF isinf(max) THEN dNaN ELSE max>>

nanminmax2D(vec) == nanminmax(Values2D(vec))

nanminmax3D(vec) == nanminmax(Values3D(vec))

MaxOf(S) == CHOOSE x \in S : \A y \in S : y <= x


-----------------------------------------------------------------------------
(* The inputs of the dealiaser: the VRAD measurement that                  *)
(* HoofHomogenizer::storeData leaves in the HoofData object.               *)

\* bounds of the model
NelSet == {1, 2}

\* the numbers of range bins of an elevation
NrSet == {1, 2}

MaxCells == 5

NazSet == {1, 2, 4}

\* the measured radial velocities of a bin, in m/s
VradSet == {dNaN, Dbl(0), Dbl(10)}

\* the Nyquist velocities (in m/s) of the elevations of a volume
VnysSet(nel) == {[e \in 0 .. nel - 1 |-> Dbl(20 - 10 * e)]}

\* elevation angle (in units of pi) and bin heights (in m, by range bin) of
\* the elevations of a volume, lowest elevation first
ElangleOf(e) == IF e = 0 THEN Dbl(0) ELSE Ratio(1, 3)

HeightOf(e, k) == Dbl(50 + 100 * e + 20 * k)

MaxWindSet == {Dbl(15), Dbl(40)}

MinGoodPointsSet == {1, 3}

ZMaxSet == {Dbl(160)}

\* the winds (u, v) that the least-squares fit of a height sector may return
WindSet == {<<Dbl(0), Dbl(0)>>, <<Dbl(-10), Dbl(10)>>, <<Dbl(45), Dbl(-20)>>}

\* an empty HoofMeasurement
NoMeasurement ==
    [nel |-> 0, naz |-> <<>>, nr |-> <<>>, nazMax |-> 0, nrMax |-> 0,
     elangles |-> <<>>, azimuths |-> <<>>, ranges |-> <<>>, rscales |-> <<>>,
     rstarts |-> <<>>, vnys |-> <<>>, meas |-> <<>>, ths |-> <<>>,
     quals |-> <<>>, zs |-> <<>>]

\* the bins (e, j, k) of a measurement with naz[e] rays and nr[e] range bins
Bins(naz, nr) ==
    {<<e, j, k>> \in (DOMAIN naz) \X (0 .. 3) \X (0 .. MaxOf(NrSet)) :
        j < naz[e] /\ k < nr[e]}

\* the 3D vector (nel, nazMax, nrMax) holding f on the bins and NaN elsewhere
Cube(nel, nazMax, nrMax, bins, f) ==
    [e \in 0 .. nel - 1 |-> [j \in 0 .. nazMax - 1 |-> [k \in 0 .. nrMax - 1 |->
        IF <<e, j, k>> \in bins THEN f[<<e, j, k>>] ELSE dNaN]]]

\* the VRAD measurements storeData can leave: nel elevations, elevation e
\* with naz[e] rays of nr[e] bins, azimuths evenly spaced on [0, 2 pi)
VradInputs ==
    UNION {
        UNION { LET bins == Bins(naz, nr)
                    nazMax == MaxOf({naz[e] : e \in DOMAIN naz})
                    nrMax == MaxOf({nr[e] : e \in DOMAIN nr})
                IN  IF Cardinality(bins) > MaxCells THEN {}
                    ELSE { [NoMeasurement EXCEPT
                              !.nel = nel, !.naz = naz, !.nr = nr,
                              !.nazMax = nazMax, !.nrMax = nrMax,
                              !.elangles = [e \in 0 .. nel - 1 |-> ElangleOf(e)],
                              !.azimuths = [e \in 0 .. nel - 1 |->
                                  linspace(Vec(nazMax, dNaN), Dbl(0), Dbl(2), naz[e])],
                              !.vnys = vnys,
                              !.meas = Cube(nel, nazMax, nrMax, bins, f),
                              !.zs = Cube(nel, nazMax, nrMax, bins,
                                          [b \in bins |-> HeightOf(b[1], b[3])])] :
                           f \in [bins -> VradSet],
                           vnys \in VnysSet(nel) }
              : naz \in [0 .. nel - 1 -> NazSet], nr \in [0 .. nel - 1 -> NrSet] }
      : nel \in NelSet }

\* one elevation of 4 rays of 2 bins, the near bins with measurements of
\* half the Nyquist velocity or of the Nyquist velocity itself
NyquistEdgeInputs ==
    LET bins == {<<0, j, k>> : j \in 0 .. 3, k \in 0 .. 1}
    IN  { [NoMeasurement EXCEPT
              !.nel = 1, !.naz = [e \in {0} |-> 4], !.nr = [e \in {0} |-> 2],
              !.nazMax = 4, !.nrMax = 2,
              !.elangles = [e \in {0} |-> ElangleOf(e)],
              !.azimuths = [e \in {0} |-> linspace(Vec(4, dNaN), Dbl(0), Dbl(2), 4)],
              !.vnys = [e \in {0} |-> Dbl(20)],
              !.meas = Cube(1, 4, 2, bins,
                            [b \in bins |-> IF b[3] = 0 THEN f[b[2]] ELSE Dbl(10)]),
              !.zs = Cube(1, 4, 2, bins, [b \in bins |-> HeightOf(b[1], b[3])])] :
          f \in [0 .. 3 -> {Dbl(10), Dbl(20)}] }

\* the dealiasing and superobing settings of HoofSettings before a namelist
\* is read
DefaultSettings ==
    [printLogWarnings |-> FALSE, dealiasing |-> FALSE, zSectorSize |-> Dbl(0), zMax |-> Dbl(0),
     minGoodPoints |-> 0, maxWind |-> Dbl(0), superobing |-> FALSE,
     rangeBinFactor |-> 0, rayAngleFactor |-> 0, maxArcSize |-> Dbl(0),
     minQuality |-> Dbl(0), dbzClearsky |-> Dbl(0), dbzPercentage |-> Dbl(0),
     vradPercentage |-> Dbl(0), vradMaxStd |-> Dbl(0)]

\* the settings of a run that dealiases only
DealiasSettings ==
    { [DefaultSettings EXCEPT !.dealiasing = TRUE, !.zSectorSize = Dbl(100),
                              !.zMax = zMax, !.minGoodPoints = minGoodPoints,
                              !.maxWind = maxWind] :
        zMax \in ZMaxSet, minGoodPoints \in MinGoodPointsSet,
        maxWind \in MaxWindSet }

NoData ==
    [height |-> Dbl(0), dbz |-> NoMeasurement, vrad |-> NoMeasurement,
     zStarts |-> <<>>, zEnds |-> <<>>, zIdxs |-> <<>>, wModels |-> <<>>,
     dvrads |-> <<>>, sdbz |-> NoMeasurement, svrad |-> NoMeasurement]

\* a HoofWorker after its constructor
NoWorker == [warnings |-> <<>>, errors |-> <<>>]

\* main at work on its only file, the homogenizer having run without a
\* warning or an error
OneFile ==
    /\ homogenizer = NoWorker
    /\ logFile = <<>>
    /\ main = [entries |-> <<>>, allFiles |-> 1, goodFiles |-> 0]

\* a HoofDealiaser after its constructor (_vnyMin is not yet set)
NewDealiaser ==
    [warnings |-> <<>>, errors |-> <<>>, As |-> <<>>, Bs |-> <<>>, Ds |-> <<>>,
     cosEls |-> <<>>, cosAzs |-> <<>>, sinAzs |-> <<>>, vnyMin |-> dNaN]

InitDealias ==
    /\ settings \in DealiasSettings
    /\ \E vrad \in VradInputs \cup NyquistEdgeInputs : data = [NoData EXCEPT !.vrad = vrad]
    /\ dealiaser = NewDealiaser
    /\ superober = NoWorker
    /\ outFile = <<>>
    /\ OneFile
    /\ pc = "dealiaser.checkData"


-----------------------------------------------------------------------------
(* HoofDealiaser *)

\* HoofWorker::warning and HoofWorker::error
warning(worker, warn) == [worker EXCEPT !.warnings = Append(@, warn)]

error(worker, err) == [worker EXCEPT !.errors = Append(@, err)]

\* HoofDealiaser::checkData
DealiaserCheckData ==
    /\ pc = "dealiaser.checkData"
    /\ LET d1 == IF data.vrad.nel = 0
                 THEN error(dealiaser, "no VRAD datasets in file")
                 ELSE dealiaser
           d2 == IF isallnan3D(data.vrad.meas)
                 THEN error(d1, "all data in VRAD datasets are NaN")
                 ELSE d1
       IN  dealiaser' = d2
    /\ pc' = "calculateWindModelQtys"
    /\ UNCHANGED <<settings, data, superober, outFile, homogenizer, logFile, main>>

\* the smallest Nyquist velocity, found as calculateWindModelQtys finds it:
\* starting from infinity, replaced by each smaller vnys[i]
RECURSIVE VnyMin(_, _)
VnyMin(vnys, n) ==
    IF n = 0 THEN dInf
    ELSE LET prev == VnyMin(vnys, n - 1)
         IN  IF DLt(vnys[n - 1], prev) THEN vnys[n - 1] ELSE prev

\* the rays after and before the ray j of an elevation of azSize rays
nextj(j, azSize) == IF j + 1 = azSize THEN 0 ELSE j + 1

\* a ray that is its own predecessor
prevjSelf(j, azSize) == j

prevj(j, azSize) == IF j - 1 = -1 THEN azSize - 1 ELSE j - 1

\* the difference of the azimuths of the rays after and before the ray j,
\* without the correction at the first and the last ray
dazUncorrected(azimuths, j, azSize) ==
    DSub(azimuths[nextj(j, azSize)], azimuths[prevj(j, azSize)])

\* daz of calculateWindModelQtys (in units of pi): the difference of the
\* azimuths of the rays after and before the ray j, less 2 pi at the first
\* and at the last ray
daz(azimuths, j, azSize) ==
    LET d == DSub(azimuths[nextj(j, azSize)], azimuths[prevj(j, azSize)])
    IN  IF j = 0 \/ j = azSize - 1 THEN DSub(d, DMul(Dbl(2), Dbl(1))) ELSE d

\* HoofDealiaser::calculateWindModelQtys.  An angle being kept in units of
\* pi, f3s holds pi times the code's f3 and Ds holds pi squared times the
\* code's D.
CalculateWindModelQtys ==
    /\ pc = "calculateWindModelQtys"
    /\ LET vrad == data.vrad
           nel == vrad.nel
           naz == vrad.nazMax
           nr == vrad.nrMax
           Pi == Dbl(1)
           InRange(i, j, k) == j < vrad.naz[i] /\ k < vrad.nr[i]
           cosEls == [i \in 0 .. nel - 1 |-> cos(vrad.elangles[i])]
           cosAzs == [i \in 0 .. nel - 1 |-> [j \in 0 .. naz - 1 |->
                        IF j < vrad.naz[i] THEN cos(vrad.azimuths[i][j]) ELSE dNaN]]
           sinAzs == [i \in 0 .. nel - 1 |-> [j \in 0 .. naz - 1 |->
                        IF j < vrad.naz[i] THEN sin(vrad.azimuths[i][j]) ELSE dNaN]]
           f1(i, j, k) == sin(DDiv(DMul(Pi, vrad.meas[i][j][k]), vrad.vnys[i]))
           As == [i \in 0 .. nel - 1 |-> [j \in 0 .. naz - 1 |-> [k \in 0 .. nr - 1 |->
                    IF InRange(i, j, k)
                    THEN DMul(DMul(cosEls[i], cosAzs[i][j]), f1(i, j, k))
                    ELSE dNaN]]]
           Bs == [i \in 0 .. nel - 1 |-> [j \in 0 .. naz - 1 |-> [k \in 0 .. nr - 1 |->
                    IF InRange(i, j, k)
                    THEN DMul(DMul(cosEls[i], sinAzs[i][j]), f1(i, j, k))
                    ELSE dNaN]]]
           f3s == [i \in 0 .. nel - 1 |-> [j \in 0 .. naz - 1 |-> [k \in 0 .. nr - 1 |->
                    IF InRange(i, j, k)
                    THEN DDiv(DMul(vrad.vnys[i],
                                   cos(DDiv(DMul(Pi, vrad.meas[i][j][k]), vrad.vnys[i]))),
                              Pi)
                    ELSE dNaN]]]
           Ds == [i \in 0 .. nel - 1 |-> [j \in 0 .. naz - 1 |-> [k \in 0 .. nr - 1 |->
                    IF InRange(i, j, k)
                    THEN DDiv(DSub(f3s[i][nextj(j, vrad.naz[i])][k],
                                   f3s[i][prevj(j, vrad.naz[i])][k]),
                              daz(vrad.azimuths[i], j, vrad.naz[i]))
                    ELSE dNaN]]]
       IN  dealiaser' = [dealiaser EXCEPT
                            !.As = As, !.Bs = Bs, !.Ds = Ds, !.cosEls = cosEls,
                            !.cosAzs = cosAzs, !.sinAzs = sinAzs,
                            !.vnyMin = VnyMin(vrad.vnys, nel)]
    /\ pc' = "determineHeightSectors"
    /\ UNCHANGED <<settings, data, superober, outFile, homogenizer, logFile, main>>


\* the bins (i, j, k) of the VRAD measurement in the order of the loops
\* for(i < nel) for(j < naz[i]) for(k < nr[i])
LoopBins(vrad) ==
    LET all == [p \in 1 .. vrad.nel * vrad.nazMax * vrad.nrMax |->
                   <<(p - 1) \div (vrad.nazMax * vrad.nrMax),
                     ((p - 1) \div vrad.nrMax) % vrad.nazMax,
                     (p - 1) % vrad.nrMax>>]
        InRange(b) == b[2] < vrad.naz[b[1]] /\ b[3] < vrad.nr[b[1]]
    IN  SelectSeq(all, InRange)

\* a ceiling that takes the bins at its height
AtOrBelowCeiling(z, zmax) == DLe(z, zmax)

\* whether determineHeightSectors takes a bin at the height z under the
\* ceiling zmax
BelowCeiling(z, zmax) == DLt(z, zmax)

\* HoofDealiaser::determineHeightSectors
DetermineHeightSectors ==
    /\ pc = "determineHeightSectors"
    /\ LET vrad == data.vrad
           dz == settings.zSectorSize
           zdatamax == nanminmax3D(vrad.zs)[2]
           zmax == IF DLt(zdatamax, settings.zMax) THEN zdatamax ELSE settings.zMax
           zstart == data.height
           nl == Trunc(DDiv(DSub(zmax, zstart), dz)) + 1
           zStarts == [n \in 0 .. nl - 1 |-> DAdd(data.height, DMul(Dbl(n), dz))]
           zEnds == [n \in 0 .. nl - 1 |-> DAdd(zStarts[n], dz)]
           Eligible(b) ==
               LET z == vrad.zs[b[1]][b[2]][b[3]]
               IN  /\ ~(isnan(z) \/ isnan(vrad.meas[b[1]][b[2]][b[3]])
                         \/ isnan(dealiaser.Ds[b[1]][b[2]][b[3]]))
                   /\ BelowCeiling(z, zmax)
           idx(b) == Trunc(DDiv(DSub(vrad.zs[b[1]][b[2]][b[3]], zstart), dz))
           InSector(n) == LET Test(b) == Eligible(b) /\ idx(b) = n
                          IN  SelectSeq(LoopBins(vrad), Test)
       IN  data' = [data EXCEPT !.zStarts = zStarts, !.zEnds = zEnds,
                                !.zIdxs = [n \in 0 .. nl - 1 |-> InSector(n)]]
    /\ pc' = "calculateWindModels"
    /\ UNCHANGED <<settings, dealiaser, superober, outFile, homogenizer, logFile, main>>

\* the sum of a sequence of doubles
RECURSIVE Sum(_)
Sum(seq) == IF seq = <<>> THEN Dbl(0) ELSE DAdd(seq[1], Sum(Tail(seq)))

\* HoofAux::subset: the values of a 3D vector at the bins idxs
subset(vec, idxs) == [i \in 1 .. Len(idxs) |-> vec[idxs[i][1]][idxs[i][2]][idxs[i][3]]]

\* the scalar product of two vectors of doubles
Dot(x, y) == Sum([j \in DOMAIN x |-> DMul(x[j], y[j])])

\* a design matrix whose first column holds As unchanged
DesignPlain(As, Bs) == [j \in DOMAIN As |-> <<As[j], Bs[j]>>]

\* gsl_matrix_set(X, j, 0, -As[j]); gsl_matrix_set(X, j, 1, Bs[j]): the rows
\* of the design matrix of a sector
Design(As, Bs) == [j \in DOMAIN As |-> <<DNeg(As[j]), Bs[j]>>]

\* the solution of the 2x2 system with matrix ((m11, m12), (m12, m22)) and
\* right-hand side (b1, b2).  A singular system is solved as the balanced
\* SVD solves it: a zero column gets the coefficient 0 and the k remaining
\* dependent columns share the right-hand side equally.
Solve2(m11, m12, m22, b1, b2, det, k) ==
    IF det # Dbl(0)
    THEN <<DDiv(DSub(DMul(b1, m22), DMul(b2, m12)), det),
           DDiv(DSub(DMul(m11, b2), DMul(m12, b1)), det)>>
    ELSE <<IF m11 = Dbl(0) THEN Dbl(0) ELSE DDiv(b1, DMul(Dbl(k), m11)),
           IF m22 = Dbl(0) THEN Dbl(0) ELSE DDiv(b2, DMul(Dbl(k), m22))>>

\* the determinant of X^T X for the design matrix X
Gram(X) ==
    LET x1 == [j \in DOMAIN X |-> X[j][1]]
        x2 == [j \in DOMAIN X |-> X[j][2]]
    IN DSub(DMul(Dot(x1, x1), Dot(x2, x2)), DMul(Dot(x1, x2), Dot(x1, x2)))

\* gsl_multifit_linear(X, y, c, cov, &chisq, work): the least-squares
\* solution c of X c = y, from the normal equations X^T X c = X^T y
multifit_linear(X, y) ==
    LET x1 == [j \in DOMAIN X |-> X[j][1]]
        x2 == [j \in DOMAIN X |-> X[j][2]]
    IN Solve2(Dot(x1, x1), Dot(x1, x2), Dot(x2, x2), Dot(x1, y), Dot(x2, y),
              Gram(X),
              (IF Dot(x1, x1) = Dbl(0) THEN 0 ELSE 1)
              + (IF Dot(x2, x2) = Dbl(0) THEN 0 ELSE 1))

\* the coefficients c of a sector with the quantities As, Bs, Ds.  Ds holds
\* pi^2 times the code's D, so c holds pi^2 times the code's (u, v).
SectorWind(As, Bs, Ds) == multifit_linear(Design(As, Bs), Ds)

\* u = gsl_vector_get(c, 0), v = gsl_vector_get(c, 1): the winds (u, v) the
\* fit of a sector may give.  The wind is (0, 0) exactly when c is; any other
\* c is pi^2 times the wind, which is left open (a wind of WindSet).
Fit(As, Bs, Ds) ==
    IF SectorWind(As, Bs, Ds) = <<Dbl(0), Dbl(0)>>
    THEN {<<Dbl(0), Dbl(0)>>}
    ELSE WindSet \ {<<Dbl(0), Dbl(0)>>}

\* every height sector, whatever it holds
AllSectors == DOMAIN data.zIdxs

\* the height sectors that calculateWindModels fits a wind to
FittedSectors == {z \in DOMAIN data.zIdxs : Len(data.zIdxs[z]) >= settings.minGoodPoints}

\* the modelled radial velocity of the bin b under the wind (u, v)
ModelVelocity(b, wind) ==
    DMul(dealiaser.cosEls[b[1]],
         DAdd(DMul(wind[1], dealiaser.sinAzs[b[1]][b[2]]),
              DMul(wind[2], dealiaser.cosAzs[b[1]][b[2]])))

\* whether calculateWindModels stores the model velocity vm
AcceptsModel(vm, vmax) == DLt(DAbs(vm), vmax)

\* HoofDealiaser::calculateWindModels
CalculateWindModels ==
    /\ pc = "calculateWindModels"
    /\ \E winds \in [FittedSectors -> WindSet] :
          /\ \A z \in FittedSectors :
                winds[z] \in Fit(subset(dealiaser.As, data.zIdxs[z]),
                                 subset(dealiaser.Bs, data.zIdxs[z]),
                                 subset(dealiaser.Ds, data.zIdxs[z]))
          /\ LET vrad == data.vrad
                 vmax == settings.maxWind
                 Sector(b) == {z \in FittedSectors :
                                  \E i \in 1 .. Len(data.zIdxs[z]) : data.zIdxs[z][i] = b}
                 wModel(b) ==
                     IF Sector(b) = {} THEN dNaN
                     ELSE LET vm == ModelVelocity(b, winds[CHOOSE z \in Sector(b) : TRUE])
                          IN  IF AcceptsModel(vm, vmax) THEN vm ELSE dNaN
             IN  data' = [data EXCEPT !.wModels =
                     [i \in 0 .. vrad.nel - 1 |-> [j \in 0 .. vrad.nazMax - 1 |->
                         [k \in 0 .. vrad.nrMax - 1 |-> wModel(<<i, j, k>>)]]]]
    /\ pc' = "dealias"
    /\ UNCHANGED <<settings, dealiaser, superober, outFile, homogenizer, logFile, main>>

\* hoof::iNaN is std::numeric_limits<int>::quiet_NaN(), which is 0
iNaN == 0

\* std::isnan of an int: the int is converted to a double, never a NaN
isnanInt(n) == FALSE

\* a loop that also replaces the multiplier kept so far at equal distance
ImprovesOrTies(currMn, mn) == DLe(currMn, mn)

\* whether the loop over the Nyquist multipliers replaces the multiplier
\* kept so far (at distance mn) by one at distance currMn
Improves(currMn, mn) == DLt(currMn, mn)

\* the loop for(n = from; n <= nymax; n++) of dealias at one bin with
\* measurement m, model wm and Nyquist velocity vny: <<mns, ns>> of the bin
RECURSIVE MultiplierLoop(_, _, _, _, _, _)
MultiplierLoop(from, nymax, mnsns, m, wm, vny) ==
    IF from > nymax THEN mnsns
    ELSE LET currMn == DAbs(DSub(DAdd(m, DMul(DMul(Dbl(2), vny), Dbl(from))), wm))
         IN  MultiplierLoop(from + 1, nymax,
                 IF ~(isnan(wm) \/ isnan(m)) /\ Improves(currMn, mnsns[1])
                 THEN <<currMn, from>>
                 ELSE mnsns,
                 m, wm, vny)

\* the ratio of nymax taken the wrong way round
NymaxInverted == Trunc(DDiv(dealiaser.vnyMin, settings.maxWind))

\* the largest Nyquist multiplier that dealias tries
Nymax == Trunc(DDiv(settings.maxWind, dealiaser.vnyMin))

\* the Nyquist multiplier ns[i][j][k] that dealias finds
Multiplier(i, j, k) ==
    MultiplierLoop(-Nymax, Nymax, <<dInf, iNaN>>,
                   data.vrad.meas[i][j][k], data.wModels[i][j][k], data.vrad.vnys[i])[2]

\* whether dealias leaves dvrads NaN at a bin with measurement m,
\* multiplier n and model quantity D
SkipsBin(m, n, D) == isnan(m) \/ isnanInt(n) \/ isnan(D)

\* an unfolding by n Nyquist velocities instead of n Nyquist intervals
UnfoldHalf(m, n, vny) == DAdd(m, DMul(Dbl(n), vny))

\* the dealiased velocity of a measurement m with the multiplier n
Unfold(m, n, vny) == DAdd(m, DMul(DMul(Dbl(2), Dbl(n)), vny))

\* HoofDealiaser::dealias
Dealias ==
    /\ pc = "dealias"
    /\ LET vrad == data.vrad
           dvrad(i, j, k) ==
               LET m == vrad.meas[i][j][k]
                   n == Multiplier(i, j, k)
               IN  IF j < vrad.naz[i] /\ k < vrad.nr[i]
                      /\ ~SkipsBin(m, n, dealiaser.Ds[i][j][k])
                   THEN Unfold(m, n, vrad.vnys[i])
                   ELSE dNaN
       IN  data' = [data EXCEPT !.dvrads =
               [i \in 0 .. vrad.nel - 1 |-> [j \in 0 .. vrad.nazMax - 1 |->
                   [k \in 0 .. vrad.nrMax - 1 |-> dvrad(i, j, k)]]]]
    /\ pc' = "dealiaser.write"
    /\ UNCHANGED <<settings, dealiaser, superober, outFile, homogenizer, logFile, main>>

NextDealias ==
    \/ DealiaserCheckData
    \/ CalculateWindModelQtys
    \/ DetermineHeightSectors
    \/ CalculateWindModels
    \/ Dealias

SpecDealias == InitDealias /\ [][NextDealias]_vars


-----------------------------------------------------------------------------
(* Properties of the dealiaser, over the behaviours of SpecDealias.         *)

\* dealias() has returned
Dealiased == pc = "dealiaser.write"

\* the bins (e, a, r) of the VRAD measurement
VradBins == Bins(data.vrad.naz, data.vrad.nr)

At(vec, b) == vec[b[1]][b[2]][b[3]]

\* N = floor(maxWind / vny_min), vny_min the smallest Nyquist velocity
NyquistN ==
    Floor(DDiv(settings.maxWind,
               DMin({data.vrad.vnys[e] : e \in DOMAIN data.vrad.vnys})))

\* |meas + 2 j vny[e] - wModels| of the bin b
Distance(b, j) ==
    DAbs(DSub(DAdd(At(data.vrad.meas, b),
                   DMul(Dbl(2 * j), data.vrad.vnys[b[1]])),
              At(data.wModels, b)))

\* the multipliers k of [-N, N] with dvrads = meas + 2 k vny[e] at the bin b
MultipliersOf(b) ==
    {k \in -NyquistN .. NyquistN :
        At(data.dvrads, b) = DAdd(At(data.vrad.meas, b),
                                  DMul(Dbl(2 * k), data.vrad.vnys[b[1]]))}

\* C1: after dealias(), every defined dvrads is meas + 2 k vny[e] for an
\* integer k with |k| <= N = floor(maxWind / vny_min)
C1_MultiplierWithinN ==
    Dealiased =>
        \A b \in VradBins :
            ~isnan(At(data.dvrads, b)) => MultipliersOf(b) # {}

\* a bin has been dealiased with a multiplier other than 0
C1_Witness ==
    /\ Dealiased
    /\ \E b \in VradBins :
          /\ ~isnan(At(data.dvrads, b))
          /\ MultipliersOf(b) # {}
          /\ 0 \notin MultipliersOf(b)

\* C2: after dealias(), dvrads is NaN at every bin whose wModels, meas or D
\* is NaN; when every height sector has fewer than minGoodPoints eligible
\* bins, all dvrads are NaN and the dealiasing of a measurement that
\* passed checkData records no error
C2_NaNWhereModelMissing ==
    Dealiased =>
        /\ \A b \in VradBins :
              (\/ isnan(At(data.wModels, b))
               \/ isnan(At(data.vrad.meas, b))
               \/ isnan(At(dealiaser.Ds, b))) => isnan(At(data.dvrads, b))
        /\ FittedSectors = {} =>
              /\ \A b \in VradBins : isnan(At(data.dvrads, b))
              /\ ~isallnan3D(data.vrad.meas) => dealiaser.errors = <<>>

\* C3: at every bin with meas and wModels defined, the dealiased velocity
\* is at least as close to the model as meas + 2 j vny[e] for every j of
\* [-N, N]
C3_ClosestToModel ==
    Dealiased =>
        \A b \in VradBins :
            (~isnan(At(data.vrad.meas, b)) /\ ~isnan(At(data.wModels, b))) =>
                \A j \in -NyquistN .. NyquistN :
                    DLe(DAbs(DSub(At(data.dvrads, b), At(data.wModels, b))),
                        Distance(b, j))

\* a bin with meas and wModels defined where multiplier 0 is strictly
\* farther from the model than the multiplier chosen
C3_Witness ==
    /\ Dealiased
    /\ \E b \in VradBins :
          /\ ~isnan(At(data.vrad.meas, b)) /\ ~isnan(At(data.wModels, b))
          /\ DLt(DAbs(DSub(At(data.dvrads, b), At(data.wModels, b))),
                 Distance(b, 0))

\* C4, as amended: when several multipliers of [-N, N] give the same
\* distance to the model, dealias() chooses the smallest of them (the first
\* one met in ascending order)
C4_TieTakesSmallestK ==
    Dealiased =>
        \A b \in VradBins :
            (~isnan(At(data.vrad.meas, b)) /\ ~isnan(At(data.wModels, b))) =>
                \E k \in MultipliersOf(b) :
                    \A j \in -NyquistN .. NyquistN :
                        Distance(b, j) = Distance(b, k) => k <= j

\* a bin where two multipliers of [-N, N] tie at the chosen distance
C4_Witness ==
    /\ Dealiased
    /\ \E b \in VradBins :
          /\ ~isnan(At(data.vrad.meas, b)) /\ ~isnan(At(data.wModels, b))
          /\ \E k \in MultipliersOf(b) :
                \E j \in -NyquistN .. NyquistN :
                    j # k /\ Distance(b, j) = Distance(b, k)

\* C4, as stated: on a tie dealias() chooses the multiplier with the
\* smaller |k|
C4_TieTakesSmallestAbsK ==
    Dealiased =>
        \A b \in VradBins :
            (~isnan(At(data.vrad.meas, b)) /\ ~isnan(At(data.wModels, b))) =>
                \E k \in MultipliersOf(b) :
                    \A j \in -NyquistN .. NyquistN :
                        Distance(b, j) = Distance(b, k) => Abs(k) <= Abs(j)

-----------------------------------------------------------------------------
(* The inputs of the superober: the DBZ and VRAD measurements that          *)
(* HoofHomogenizer::storeData leaves in the HoofData object.  Only the      *)
(* fields that the superober reads are filled.                              *)

SNazSet == {1, 2, 3}

MaxSCells == 4

\* a DBZ bin <<reflectivity, TH, quality>>: without data, of low quality,
\* dry, wet with a TH value, wet without a TH value
DbzBinSet ==
    {<<dNaN, dNaN, dNaN>>, <<Dbl(-40), Dbl(45), Dbl(0)>>,
     <<Dbl(-30), dNaN, Dbl(1)>>, <<Dbl(20), Dbl(25), Dbl(1)>>,
     <<Dbl(30), dNaN, Dbl(1)>>}

\* the radial velocities of a bin, in m/s
VelocitySet == {dNaN, Dbl(1), Dbl(10)}

\* range bin length and start (in m) of the elevations of a volume
RScaleOf(e) == Dbl(1500)

RStartOf(e) == Dbl(100 * (e + 1))

RayAngleFactorSet == {1, 3}

RangeBinFactorSet == {1, 2}

\* the numbers <<naz, nr>> of rays and range bins by elevation of the
\* volumes with nel elevations and at most maxCells bins
Shapes(nel, maxCells) ==
    {sh \in [0 .. nel - 1 -> SNazSet] \X [0 .. nel - 1 -> NrSet] :
        Cardinality(Bins(sh[1], sh[2])) <= maxCells}

\* the measurement with naz[e] rays of nr[e] bins at elevation e, without
\* its data
Geometry(naz, nr) ==
    LET nel == Cardinality(DOMAIN naz)
        nazMax == MaxOf({naz[e] : e \in DOMAIN naz})
    IN  [NoMeasurement EXCEPT
            !.nel = nel, !.naz = naz, !.nr = nr, !.nazMax = nazMax,
            !.nrMax = MaxOf({nr[e] : e \in DOMAIN nr}),
            !.elangles = [e \in 0 .. nel - 1 |-> ElangleOf(e)],
            !.azimuths = [e \in 0 .. nel - 1 |->
                linspace(Vec(nazMax, dNaN), Dbl(0), Dbl(2), naz[e])],
            !.rscales = [e \in 0 .. nel - 1 |-> RScaleOf(e)],
            !.rstarts = [e \in 0 .. nel - 1 |-> RStartOf(e)]]

\* the DBZ measurement whose bin b holds f[b] = <<reflectivity, TH, quality>>
DbzMeasurement(naz, nr, f) ==
    LET g == Geometry(naz, nr)
        bins == Bins(naz, nr)
        Field(n) == Cube(g.nel, g.nazMax, g.nrMax, bins, [b \in bins |-> f[b][n]])
    IN  [g EXCEPT !.meas = Field(1), !.ths = Field(2), !.quals = Field(3)]

\* the VRAD measurement whose bin b holds the velocity f[b]
VradMeasurement(naz, nr, f) ==
    LET g == Geometry(naz, nr)
    IN  [g EXCEPT !.vnys = [e \in 0 .. g.nel - 1 |-> Dbl(20)],
                  !.meas = Cube(g.nel, g.nazMax, g.nrMax, Bins(naz, nr), f)]

\* the settings of a run that superobs only
SuperobSettings(rayF, binF) ==
    [DefaultSettings EXCEPT
        !.superobing = TRUE, !.rayAngleFactor = rayF, !.rangeBinFactor = binF,
        !.maxArcSize = Dbl(1), !.minQuality = Ratio(1, 2),
        !.dbzClearsky = Dbl(0), !.dbzPercentage = Ratio(1, 2),
        !.vradPercentage = Ratio(1, 2), !.vradMaxStd = Dbl(1)]

\* one elevation of 3 rays and nr range bins
ThreeRays(nr) == <<[e \in {0} |-> 3], [e \in {0} |-> nr]>>

\* the runs on an empty volume, on a volume with DBZ only and on a volume
\* with VRAD only
SuperobRuns ==
    /\ \E rayF \in RayAngleFactorSet, binF \in RangeBinFactorSet :
          settings = SuperobSettings(rayF, binF)
    /\ \/ data = NoData
       \/ \E sh \in Shapes(1, MaxSCells) :
             \E f \in [Bins(sh[1], sh[2]) -> DbzBinSet] :
                 data = [NoData EXCEPT !.dbz = DbzMeasurement(sh[1], sh[2], f)]
       \/ \E sh \in Shapes(1, MaxSCells) \cup Shapes(2, MaxSCells) :
             \E f \in [Bins(sh[1], sh[2]) -> VelocitySet] :
                 data = [NoData EXCEPT !.vrad = VradMeasurement(sh[1], sh[2], f)]

\* the runs whose far range bins are superobed from fewer rays than the near
\* ones: 3 rays of 2 range bins, rayAngleFactor 3
ArcLimitedRuns ==
    LET sh == ThreeRays(2)
        bins == Bins(sh[1], sh[2])
    IN  /\ settings = SuperobSettings(3, 1)
        /\ \/ \E f \in [bins -> {Dbl(1), Dbl(10)}] :
                 data = [NoData EXCEPT !.vrad = VradMeasurement(sh[1], sh[2], f)]
           \/ \E f \in [bins -> {<<Dbl(-30), dNaN, Dbl(1)>>,
                                 <<Dbl(20), Dbl(25), Dbl(1)>>}] :
                 data = [NoData EXCEPT !.dbz = DbzMeasurement(sh[1], sh[2], f)]

\* the runs on one coarse cell of 3 x 3 bins holding the velocities
\* {1, 1, 1, 1, 1, 1, 1, 1, 10}
NineBinRuns ==
    LET sh == ThreeRays(3)
        bins == Bins(sh[1], sh[2])
    IN  /\ settings = SuperobSettings(3, 3)
        /\ \E at \in bins :
              data = [NoData EXCEPT !.vrad = VradMeasurement(sh[1], sh[2],
                         [b \in bins |-> IF b = at THEN Dbl(10) ELSE Dbl(1)])]

\* the runs on one ray of 3 range bins superobed by pairs of range bins
LeftoverBinRuns ==
    LET sh == <<[e \in {0} |-> 1], [e \in {0} |-> 3]>>
        bins == Bins(sh[1], sh[2])
    IN  /\ settings = SuperobSettings(1, 2)
        /\ \E f \in [bins -> VelocitySet] :
              data = [NoData EXCEPT !.vrad = VradMeasurement(sh[1], sh[2], f)]

\* the runs with rayAngleFactor 5: one elevation of 5 rays of 1 range bin
FiveRayRuns ==
    LET sh == <<[e \in {0} |-> 5], [e \in {0} |-> 1]>>
        bins == Bins(sh[1], sh[2])
    IN  /\ settings = SuperobSettings(5, 1)
        /\ \E f \in [bins -> {Dbl(1), Dbl(10)}] :
              data = [NoData EXCEPT !.vrad = VradMeasurement(sh[1], sh[2], f)]

\* the runs whose arc limit L is below 1: one elevation of 2 rays of 1 range
\* bin, maxArcSize 0.05
TightArcRuns ==
    LET sh == <<[e \in {0} |-> 2], [e \in {0} |-> 1]>>
        bins == Bins(sh[1], sh[2])
    IN  /\ settings = [SuperobSettings(1, 1) EXCEPT !.maxArcSize = Ratio(1, 20)]
        /\ \E f \in [bins -> {Dbl(1), Dbl(10)}] :
              data = [NoData EXCEPT !.vrad = VradMeasurement(sh[1], sh[2], f)]

\* the runs on a volume with both moments: one DBZ bin and one VRAD bin, the
\* DBZ bin without data, with a quality only, or wet
BothMomentRuns ==
    LET sh == <<[e \in {0} |-> 1], [e \in {0} |-> 1]>>
        bins == Bins(sh[1], sh[2])
    IN  /\ settings = SuperobSettings(1, 1)
        /\ \E d \in {<<dNaN, dNaN, dNaN>>, <<dNaN, dNaN, Dbl(1)>>,
                      <<Dbl(20), Dbl(25), Dbl(1)>>},
              v \in {dNaN, Dbl(10)} :
              data = [NoData EXCEPT
                         !.dbz = DbzMeasurement(sh[1], sh[2], [b \in bins |-> d]),
                         !.vrad = VradMeasurement(sh[1], sh[2], [b \in bins |-> v])]

\* the runs with dbzPercentage = vradPercentage = 0 on one bin of DBZ or of
\* VRAD
ZeroShareRuns ==
    LET sh == <<[e \in {0} |-> 1], [e \in {0} |-> 1]>>
        bins == Bins(sh[1], sh[2])
    IN  /\ settings = [SuperobSettings(1, 1) EXCEPT !.dbzPercentage = Dbl(0),
                                                   !.vradPercentage = Dbl(0)]
        /\ \/ \E d \in DbzBinSet :
                 data = [NoData EXCEPT
                            !.dbz = DbzMeasurement(sh[1], sh[2], [b \in bins |-> d])]
           \/ \E v \in VelocitySet :
                 data = [NoData EXCEPT
                            !.vrad = VradMeasurement(sh[1], sh[2], [b \in bins |-> v])]

\* a HoofSuperober after its constructor
NewSuperober ==
    [warnings |-> <<>>, errors |-> <<>>, dbzsNaN |-> FALSE, vradsNaN |-> FALSE,
     rangeBorders |-> <<>>, startRayBorders |-> <<>>, endRayBorders |-> <<>>]

InitSuperob ==
    /\ SuperobRuns \/ ArcLimitedRuns \/ NineBinRuns \/ LeftoverBinRuns \/ FiveRayRuns
       \/ TightArcRuns \/ BothMomentRuns \/ ZeroShareRuns
    /\ dealiaser = NoWorker
    /\ superober = NewSuperober
    /\ outFile = <<>>
    /\ OneFile
    /\ pc = "superober.checkData"


-----------------------------------------------------------------------------
(* HoofSuperober *)

\* HoofSuperober::checkData
SuperoberCheckData ==
    /\ pc = "superober.checkData"
    /\ IF data.dbz.nel = 0 /\ data.vrad.nel = 0
       THEN superober' = error(superober, "no data to superob")
       ELSE LET dbzsNaN == superober.dbzsNaN \/ isallnan3D(data.dbz.meas)
                vradsNaN == superober.vradsNaN \/ isallnan3D(data.vrad.meas)
                s1 == [superober EXCEPT !.dbzsNaN = dbzsNaN, !.vradsNaN = vradsNaN]
                s2 == IF dbzsNaN /\ vradsNaN THEN error(s1, "all data is NaN") ELSE s1
                s3 == IF dbzsNaN /\ ~vradsNaN
                      THEN warning(s2, "all DBZ data is NaN") ELSE s2
                s4 == IF ~dbzsNaN /\ vradsNaN
                      THEN warning(s3, "all VRAD data is NaN") ELSE s3
            IN  superober' = s4
    /\ pc' = "prepareMetadata"
    /\ UNCHANGED <<settings, data, dealiaser, outFile, homogenizer, logFile, main>>

\* a number of superobed bins rounded up
SuperobedSizeUp(n, factor) == (n + factor - 1) \div factor

\* (int)(n / factor): the number of superobed bins that n bins make
SuperobedSize(n, factor) == n \div factor

\* the superobed measurement that prepareMetadata derives from the
\* measurement src, smeas being the superobed measurement before the call
SuperobedMetadata(smeas, src) ==
    LET binF == settings.rangeBinFactor
        rayF == settings.rayAngleFactor
        nel == src.nel
        nr == [i \in 0 .. nel - 1 |-> SuperobedSize(src.nr[i], binF)]
        naz == [i \in 0 .. nel - 1 |-> SuperobedSize(src.naz[i], rayF)]
        nrMax == MaxOf({nr[i] : i \in DOMAIN nr})
        nazMax == MaxOf({naz[i] : i \in DOMAIN naz})
    IN  IF nel > 0
        THEN [smeas EXCEPT
                !.nel = nel, !.nr = nr, !.naz = naz,
                !.nrMax = nrMax, !.nazMax = nazMax,
                !.elangles = src.elangles,
                !.azimuths = [i \in 0 .. nel - 1 |->
                    linspace(Vec(nazMax, dNaN), Dbl(0), Dbl(2), naz[i])],
                !.ranges = [i \in 0 .. nel - 1 |->
                    linspace(Vec(nrMax, dNaN), src.rstarts[i],
                             DAdd(src.rstarts[i],
                                  DMul(DMul(Dbl(binF), src.rscales[i]), Dbl(nr[i]))),
                             nr[i])],
                !.rscales = [i \in 0 .. nel - 1 |-> DMul(Dbl(binF), src.rscales[i])],
                !.rstarts = [i \in 0 .. nel - 1 |-> src.rstarts[i]]]
        ELSE [smeas EXCEPT !.naz = Vec(nel, iNaN), !.nr = Vec(nel, iNaN)]

\* HoofSuperober::prepareMetadata
PrepareMetadata ==
    /\ pc = "prepareMetadata"
    /\ data' = [data EXCEPT !.sdbz = SuperobedMetadata(data.sdbz, data.dbz),
                            !.svrad = SuperobedMetadata(data.svrad, data.vrad)]
    /\ pc' = "superob"
    /\ UNCHANGED <<settings, dealiaser, superober, outFile, homogenizer, logFile, main>>

\* HoofAux::Pi as a ratio (where it is not the unit of an angle)
PiRatio == Ratio(355, 113)

\* the values an out-of-range read of a vector may yield
JunkIdxSet == {-1, 0, 1}

JunkDblSet == {dNaN, Dbl(0)}

\* L of _calculateBinBorders: the superobed range bin from which on the arc
\* of a superobed ray bin is longer than maxArcSize
ArcLimit(naz, binF, rscale) ==
    DDiv(DMul(DMul(Dbl(360), Dbl(360)), settings.maxArcSize),
         DMul(DMul(DMul(Dbl(2), PiRatio), Dbl(naz * binF)), rscale))

\* 0, binF, 2 binF, ... below nr + binF, all of them
RangeBordersPushed(nr, binF) ==
    [n \in 0 .. Cardinality({j \in 0 .. nr + binF - 1 : j % binF = 0}) - 1 |-> n * binF]

\* currRangeBorders: 0, binF, 2 binF, ... below nr + binF, without the last
\* one if it is beyond nr
RangeBorders(nr, binF) ==
    LET pushed == {j \in 0 .. nr + binF - 1 : j % binF = 0}
        kept == IF MaxOf(pushed) > nr THEN pushed \ {MaxOf(pushed)} ELSE pushed
    IN  [n \in 0 .. Cardinality(kept) - 1 |-> n * binF]

\* limIdx of the pass z of the loop on <<limIdxs, facSubs>>: floor(L / newFac
\* - 1) + 1, or size when that is not below size as a size_t
LimIdx(z, zmax, L, size) ==
    LET floored == Floor(DSub(DDiv(L, Dbl(2 * (zmax - z) + 1)), Dbl(1))) + 1
    IN  IF floored < 0 \/ floored >= size THEN size ELSE floored

\* <<limIdxs, facSubs>> after the pass z that found limIdx
PushLimit(lims, limIdx, z) ==
    <<IF limIdx # lims[1][Len(lims[1])] THEN Append(lims[1], limIdx) ELSE lims[1],
      Append(lims[2], z)>>

\* the loop for(z = from; z <= zmax; z++) on <<limIdxs, facSubs>>
RECURSIVE RayLimits(_, _, _, _, _)
RayLimits(from, zmax, L, size, lims) ==
    IF from > zmax THEN lims
    ELSE RayLimits(from + 1, zmax, L, size,
                   PushLimit(lims, LimIdx(from, zmax, L, size), from))

\* limIdxs[k] (k from 0), an arbitrary int when k is out of range
LimIdxAt(limIdxs, k, junk) == IF k < Len(limIdxs) THEN limIdxs[k + 1] ELSE junk

\* the loop for(k = from; k < facSubs.size(); k++) on currFacSub at the
\* superobed range bin j
RECURSIVE FacSubScan(_, _, _, _, _, _)
FacSubScan(from, j, currFacSub, limIdxs, facSubs, junk) ==
    IF from >= Len(facSubs) THEN currFacSub
    ELSE FacSubScan(from + 1, j,
             IF /\ j >= LimIdxAt(limIdxs, from, junk[1])
                /\ j < LimIdxAt(limIdxs, from + 1, junk[2])
             THEN facSubs[from + 1] ELSE currFacSub,
             limIdxs, facSubs, junk)

\* currFacSub after the pass of the superobed range bin j
RECURSIVE CurrFacSub(_, _, _, _)
CurrFacSub(j, limIdxs, facSubs, junk) ==
    FacSubScan(0, j, IF j = 0 THEN -1 ELSE CurrFacSub(j - 1, limIdxs, facSubs, junk),
               limIdxs, facSubs, junk)

\* <<limIdxs, facSubs>> with the last limIdx raised to size
LastLimitRaised(lims, size) ==
    <<IF lims[1][Len(lims[1])] < size
      THEN [lims[1] EXCEPT ![Len(lims[1])] = size] ELSE lims[1],
      lims[2]>>

\* <<limIdxs, facSubs>> of an elevation with naz rays whose currRangeBorders
\* has size entries
LimitsOfSize(naz, rscale, size) ==
    LastLimitRaised(
        RayLimits(0, (settings.rayAngleFactor - 1) \div 2,
                  ArcLimit(naz, settings.rangeBinFactor, rscale), size,
                  <<<<0>>, <<>>>>),
        size)

\* <<limIdxs, facSubs>> of elevation i of the measurement src, as
\* _calculateBinBorders leaves them
LimitsOf(src, i) ==
    LimitsOfSize(src.naz[i], src.rscales[i],
                 Cardinality(DOMAIN RangeBorders(src.nr[i], settings.rangeBinFactor)))

\* whether the passes of nsr superobed range bins read limIdxs out of range
ReadsLimitsOutOfRange(lims, nsr) ==
    \E j \in 0 .. nsr - 1, k \in 0 .. Len(lims[2]) - 1 :
        \/ k >= Len(lims[1])
        \/ j >= lims[1][k + 1] /\ k + 1 >= Len(lims[1])

\* whether _calculateBinBorders reads limIdxs out of range
ReadsLimIdxsOutOfRange(src, smeas) ==
    \E i \in 0 .. smeas.nel - 1 : ReadsLimitsOutOfRange(LimitsOf(src, i), smeas.nr[i])

\* currFacSub at each of nsr superobed range bins
FacSubsOf(lims, nsr, junk) ==
    [j \in 0 .. nsr - 1 |-> CurrFacSub(j, lims[1], lims[2], junk)]

\* ray borders moved outwards by facSubs instead of inwards
RayBordersOutwards(facSubs, nsaz, rayF) ==
    [startRayBorders |->
         [j \in DOMAIN facSubs |-> [k \in 0 .. nsaz - 1 |-> k * rayF - facSubs[j]]],
     endRayBorders |->
         [j \in DOMAIN facSubs |-> [k \in 0 .. nsaz - 1 |->
             rayF + k * rayF + facSubs[j]]]]

\* the start and end ray borders of nsaz superobed ray bins at the range
\* bins of facSubs
RayBorders(facSubs, nsaz, rayF) ==
    [startRayBorders |->
         [j \in DOMAIN facSubs |-> [k \in 0 .. nsaz - 1 |-> k * rayF + facSubs[j]]],
     endRayBorders |->
         [j \in DOMAIN facSubs |-> [k \in 0 .. nsaz - 1 |->
             rayF + k * rayF - facSubs[j]]]]

\* the borders of the elevations, each with its ray borders rays[i]
BordersOf(rays, rangeBorders) ==
    [rangeBorders |-> rangeBorders,
     startRayBorders |-> [i \in DOMAIN rays |-> rays[i].startRayBorders],
     endRayBorders |-> [i \in DOMAIN rays |-> rays[i].endRayBorders]]

\* HoofSuperober::_calculateBinBorders for the measurement src and its
\* superobed measurement smeas: range, start ray and end ray borders
CalculateBinBorders(src, smeas, junk) ==
    BordersOf([i \in 0 .. smeas.nel - 1 |->
                  RayBorders(FacSubsOf(LimitsOf(src, i), smeas.nr[i], junk),
                             smeas.naz[i], settings.rayAngleFactor)],
              [i \in 0 .. smeas.nel - 1 |->
                  RangeBorders(src.nr[i], settings.rangeBinFactor)])

\* whether superob reads a ray of the rolled cube (Nel, Naz, Nr) that is
\* out of range
ReadsRaysOutOfRange(borders, Naz) ==
    \E i \in DOMAIN borders.startRayBorders :
        \E j \in DOMAIN borders.startRayBorders[i] :
            \E k \in DOMAIN borders.startRayBorders[i][j] :
                LET startRay == borders.startRayBorders[i][j][k]
                    endRay == borders.endRayBorders[i][j][k]
                IN  startRay < endRay /\ (startRay < 0 \/ endRay > Naz)

\* the roll of superob: ray j of vec becomes ray j + zmax (minus Naz from Naz
\* on) of a cube (Nel, Naz, Nr) prefilled with value
Roll(vec, Nel, Naz, Nr, zmax, value) ==
    LET newj(j) == IF j + zmax >= Naz THEN j + zmax - Naz ELSE j + zmax
    IN  [i \in 0 .. Nel - 1 |-> [l \in 0 .. Naz - 1 |->
            IF \E j \in 0 .. Naz - 1 : newj(j) = l
            THEN vec[i][MaxOf({j \in 0 .. Naz - 1 : newj(j) = l})]
            ELSE Vec(Nr, value)]]

\* the bins <<l, m>> of the rectangle [startRay, endRay) x [startBin, endBin)
\* in the order of the loops for(l) for(m)
Rectangle(startRay, endRay, startBin, endBin) ==
    LET w == endBin - startBin
        n == IF endRay > startRay /\ w > 0 THEN (endRay - startRay) * w ELSE 0
    IN  [p \in 1 .. n |-> <<startRay + ((p - 1) \div w), startBin + ((p - 1) % w)>>]

\* vec[i][l][m], an arbitrary double when the ray l is out of range
ReadBin(vec, i, c, junk) ==
    IF c[1] \in DOMAIN vec[i] THEN vec[i][c[1]][c[2]] ELSE junk

\* whether superob counts a DBZ bin of quality q
IsValid(q, qualth) == DGt(q, qualth)

\* whether superob counts a valid DBZ bin of reflectivity d as wet
IsWet(d, clearth) == DGt(d, clearth)

\* a share that is reached by as many points as it asks for
ReachesShare(n, share, size) == DGe(Dbl(n), DMul(share, Dbl(size)))

\* whether n counted points are more than the share of the size of a cell
ExceedsShare(n, share, size) == DGt(Dbl(n), DMul(share, Dbl(size)))

\* the superobed DBZ cell <<meas, ths, quals>> of the rectangle of the rolled
\* cubes meas, ths and quals of elevation i
DbzCell(meas, ths, quals, i, startRay, endRay, startBin, endBin, dbzmin, junk) ==
    LET cells == Rectangle(startRay, endRay, startBin, endBin)
        d(c) == ReadBin(meas, i, c, junk)
        t(c) == ReadBin(ths, i, c, junk)
        q(c) == ReadBin(quals, i, c, junk)
        Wet(c) == IsValid(q(c), settings.minQuality) /\ IsWet(d(c), settings.dbzClearsky)
        Dry(c) == IsValid(q(c), settings.minQuality) /\ ~IsWet(d(c), settings.dbzClearsky)
        WetTh(c) == Wet(c) /\ DLt(t(c), Dbl(100000))
        wet == SelectSeq(cells, Wet)
        wetTh == SelectSeq(cells, WetTh)
        nWet == Len(wet)
        nDry == Len(SelectSeq(cells, Dry))
        nWetTh == Len(wetTh)
        wetAvg == Sum([p \in 1 .. nWet |-> d(wet[p])])
        wetAvgTh == Sum([p \in 1 .. nWetTh |-> t(wetTh[p])])
    IN  IF ExceedsShare(nWet, settings.dbzPercentage,
                        (endRay - startRay) * (endBin - startBin))
        THEN <<DDiv(wetAvg, Dbl(nWet)),
               IF nWetTh > 0 THEN DDiv(wetAvgTh, Dbl(nWetTh)) ELSE dNaN,
               Dbl(1)>>
        ELSE IF nDry > 0 THEN <<dbzmin, dNaN, Dbl(1)>>
        ELSE <<dNaN, dNaN, dNaN>>

\* sqrt(x) < y for a double x > 0
SqrtLess(x, y) == DGt(y, Dbl(0)) /\ DLt(x, DMul(y, y))

\* the superobed VRAD cell <<meas, quals>> of the rectangle of the rolled
\* cube meas of elevation i.  The sums s and s2 are taken over the range bin
\* index m of the good bins.
VradCell(meas, i, startRay, endRay, startBin, endBin, junk) ==
    LET cells == Rectangle(startRay, endRay, startBin, endBin)
        maxstd == settings.vradMaxStd
        Good(c) == DLt(ReadBin(meas, i, c, junk), Dbl(1000000))
        good == SelectSeq(cells, Good)
        nGood == Len(good)
        s == Sum([p \in 1 .. nGood |-> Dbl(good[p][2])])
        s2 == Sum([p \in 1 .. nGood |-> Dbl(good[p][2] * good[p][2])])
        avg == IF nGood > 0 THEN DDiv(s, Dbl(nGood)) ELSE Dbl(0)
        std2 == DDiv(DSub(s2, DMul(s, avg)), Dbl(nGood))
        stdBelow == IF nGood > 0
                    THEN IF DGt(std2, Dbl(0)) THEN SqrtLess(std2, maxstd)
                         ELSE DLt(Dbl(0), maxstd)
                    ELSE DLt(DAdd(maxstd, Dbl(1)), maxstd)
    IN  IF /\ ExceedsShare(nGood, settings.vradPercentage,
                           (endRay - startRay) * (endBin - startBin))
           /\ stdBelow
        THEN <<avg, Dbl(1)>>
        ELSE <<dNaN, Dbl(0)>>

\* the superobed cells (i, j, k) of the measurement smeas: range bin j and
\* ray bin k of elevation i
CellIndexes(smeas) ==
    {c \in (0 .. smeas.nel - 1) \X (0 .. smeas.nrMax - 1) \X (0 .. smeas.nazMax - 1) :
        c[2] < smeas.nr[c[1]] /\ c[3] < smeas.naz[c[1]]}

\* the superobed DBZ cells of the rolled cubes dmeas, dths and dquals
DbzCells(dmeas, dths, dquals, dbzmin, borders, junk) ==
    [c \in CellIndexes(data.sdbz) |->
        DbzCell(dmeas, dths, dquals, c[1],
                borders.startRayBorders[c[1]][c[2]][c[3]],
                borders.endRayBorders[c[1]][c[2]][c[3]],
                borders.rangeBorders[c[1]][c[2]],
                borders.rangeBorders[c[1]][c[2] + 1], dbzmin, junk)]

\* the superobed VRAD cells of the rolled cube vmeas
VradCells(vmeas, borders, junk) ==
    [c \in CellIndexes(data.svrad) |->
        VradCell(vmeas, c[1],
                 borders.startRayBorders[c[1]][c[2]][c[3]],
                 borders.endRayBorders[c[1]][c[2]][c[3]],
                 borders.rangeBorders[c[1]][c[2]],
                 borders.rangeBorders[c[1]][c[2] + 1], junk)]

\* the cube (Nsel, Nsaz, Nsr) holding component n of cells[<<i, j, k>>] at the
\* ray bin k and range bin j of elevation i, and value elsewhere
SuperobedCube(smeas, cells, n, value) ==
    [i \in 0 .. smeas.nel - 1 |-> [k \in 0 .. smeas.nazMax - 1 |->
        [j \in 0 .. smeas.nrMax - 1 |->
            IF k < smeas.naz[i] /\ j < smeas.nr[i]
            THEN cells[<<i, j, k>>][n] ELSE value]]]

\* data.sdbz with the cells superobed
SuperobedDbz(cells) ==
    [data.sdbz EXCEPT !.meas = SuperobedCube(data.sdbz, cells, 1, dNaN),
                      !.ths = SuperobedCube(data.sdbz, cells, 2, dNaN),
                      !.quals = SuperobedCube(data.sdbz, cells, 3, dNaN)]

\* data.svrad with the cells superobed
SuperobedVrad(cells) ==
    [data.svrad EXCEPT !.meas = SuperobedCube(data.svrad, cells, 1, dNaN),
                       !.quals = SuperobedCube(data.svrad, cells, 2, Dbl(0))]

\* the borders that superob leaves in the superober
KeptBorders(dbzBorders, vradBorders) ==
    IF data.vrad.nel > 0 THEN vradBorders
    ELSE IF data.dbz.nel > 0 THEN dbzBorders
    ELSE [rangeBorders |-> superober.rangeBorders,
          startRayBorders |-> superober.startRayBorders,
          endRayBorders |-> superober.endRayBorders]

\* the superober with the borders
WithBorders(borders) ==
    [superober EXCEPT !.rangeBorders = borders.rangeBorders,
                      !.startRayBorders = borders.startRayBorders,
                      !.endRayBorders = borders.endRayBorders]

\* superob with the borders that _calculateBinBorders gives DBZ and VRAD
SuperobBetween(dbzBorders, vradBorders, zmax, junkDbl) ==
    /\ \/ junkDbl = dNaN
       \/ ReadsRaysOutOfRange(dbzBorders, data.dbz.nazMax)
       \/ ReadsRaysOutOfRange(vradBorders, data.vrad.nazMax)
    /\ data' =
          [data EXCEPT
              !.sdbz =
                  IF data.dbz.nel > 0
                  THEN SuperobedDbz(DbzCells(
                           Roll(data.dbz.meas, data.dbz.nel, data.dbz.nazMax,
                                data.dbz.nrMax, zmax, dNaN),
                           Roll(data.dbz.ths, data.dbz.nel, data.dbz.nazMax,
                                data.dbz.nrMax, zmax, dNaN),
                           Roll(data.dbz.quals, data.dbz.nel, data.dbz.nazMax,
                                data.dbz.nrMax, zmax, Dbl(0)),
                           nanminmax3D(data.dbz.meas)[1], dbzBorders, junkDbl))
                  ELSE @,
              !.svrad =
                  IF data.vrad.nel > 0
                  THEN SuperobedVrad(VradCells(
                           Roll(IF settings.dealiasing THEN data.dvrads
                                ELSE data.vrad.meas,
                                data.vrad.nel, data.vrad.nazMax, data.vrad.nrMax,
                                zmax, dNaN),
                           vradBorders, junkDbl))
                  ELSE @]
    /\ superober' = WithBorders(KeptBorders(dbzBorders, vradBorders))

\* HoofSuperober::superob
Superob ==
    /\ pc = "superob"
    /\ \E junkIdx \in
              IF \/ ReadsLimIdxsOutOfRange(data.dbz, data.sdbz)
                 \/ ReadsLimIdxsOutOfRange(data.vrad, data.svrad)
              THEN JunkIdxSet \X JunkIdxSet ELSE {<<0, 0>>},
          junkDbl \in JunkDblSet :
          SuperobBetween(CalculateBinBorders(data.dbz, data.sdbz, junkIdx),
                         CalculateBinBorders(data.vrad, data.svrad, junkIdx),
                         (settings.rayAngleFactor - 1) \div 2, junkDbl)
    /\ pc' = "superober.write"
    /\ UNCHANGED <<settings, dealiaser, outFile, homogenizer, logFile, main>>

NextSuperob ==
    \/ SuperoberCheckData
    \/ PrepareMetadata
    \/ Superob

SpecSuperob == InitSuperob /\ [][NextSuperob]_vars


-----------------------------------------------------------------------------
(* Properties of the superober, over the behaviours of SpecSuperob.         *)

\* prepareMetadata() has returned
MetadataPrepared == pc \in {"superob", "superober.write"}

\* superob() has returned
Superobed == pc = "superober.write"

\* the coarse cells <<e, k, j>> (ray bin k, range bin j) of a superobed
\* measurement
CoarseCells(smeas) ==
    {c \in (DOMAIN smeas.naz) \X (0 .. 3) \X (0 .. MaxOf(NrSet)) :
        c[2] < smeas.naz[c[1]] /\ c[3] < smeas.nr[c[1]]}

\* the source bins <<l, m>> of the coarse cell c, as a sequence: the
\* rectangle [startRay, endRay) x [startBin, endBin) of the borders kept
\* by the superober
SourceBins(c) ==
    Rectangle(superober.startRayBorders[c[1]][c[3]][c[2]],
              superober.endRayBorders[c[1]][c[3]][c[2]],
              superober.rangeBorders[c[1]][c[3]],
              superober.rangeBorders[c[1]][c[3] + 1])

\* N = (endRay - startRay) * (endBin - startBin) of the coarse cell c
CellSize(c) ==
    (superober.endRayBorders[c[1]][c[3]][c[2]]
        - superober.startRayBorders[c[1]][c[3]][c[2]])
    * (superober.rangeBorders[c[1]][c[3] + 1] - superober.rangeBorders[c[1]][c[3]])

RayRoll == (settings.rayAngleFactor - 1) \div 2

\* the rolled source cubes
RolledVelocities ==
    Roll(IF settings.dealiasing THEN data.dvrads ELSE data.vrad.meas,
         data.vrad.nel, data.vrad.nazMax, data.vrad.nrMax, RayRoll, dNaN)

RolledDbz(vec) ==
    Roll(vec, data.dbz.nel, data.dbz.nazMax, data.dbz.nrMax, RayRoll, dNaN)

\* the defined source velocities (below 1e6, not NaN) of the coarse cell c
DefinedVelocities(c) ==
    LET Defined(b) == /\ b[1] \in DOMAIN RolledVelocities[c[1]]
                      /\ ~isnan(RolledVelocities[c[1]][b[1]][b[2]])
                      /\ DLt(RolledVelocities[c[1]][b[1]][b[2]], Dbl(1000000))
        bins == SelectSeq(SourceBins(c), Defined)
    IN  [p \in 1 .. Len(bins) |-> RolledVelocities[c[1]][bins[p][1]][bins[p][2]]]

\* the arithmetic mean of a sequence of doubles
Mean(seq) == DDiv(Sum(seq), Dbl(Len(seq)))

\* whether the population standard deviation of a sequence of doubles is
\* below the double bound
StdBelow(seq, bound) ==
    LET square == [p \in DOMAIN seq |-> DMul(seq[p], seq[p])]
        variance == DSub(Mean(square), DMul(Mean(seq), Mean(seq)))
    IN  DGt(bound, Dbl(0)) /\ DLt(variance, DMul(bound, bound))

\* the coarse VRAD cell c is emitted
VradEmitted(c) ==
    /\ ~isnan(data.svrad.meas[c[1]][c[2]][c[3]])
    /\ data.svrad.quals[c[1]][c[2]][c[3]] = Dbl(1)

\* C5: every coarse VRAD cell that superob() emits holds the arithmetic
\* mean of the defined source velocities of its rectangle of the rolled
\* source cube
C5_VradCellIsMeanVelocity ==
    Superobed =>
        \A c \in CoarseCells(data.svrad) :
            VradEmitted(c) =>
                data.svrad.meas[c[1]][c[2]][c[3]] = Mean(DefinedVelocities(c))

\* C6: superob() emits a coarse VRAD cell if and only if nGood is more than
\* vradPercentage * N and the population standard deviation of the defined
\* source velocities is below vradMaxStd; otherwise the cell is NaN with
\* quality 0
C6_VradCellEmittedIff ==
    Superobed =>
        \A c \in CoarseCells(data.svrad) :
            LET vs == DefinedVelocities(c)
                due == /\ DGt(Dbl(Len(vs)), DMul(settings.vradPercentage,
                                                 Dbl(CellSize(c))))
                       /\ StdBelow(vs, settings.vradMaxStd)
            IN  /\ VradEmitted(c) <=> due
                /\ ~due => /\ isnan(data.svrad.meas[c[1]][c[2]][c[3]])
                           /\ data.svrad.quals[c[1]][c[2]][c[3]] = Dbl(0)

\* C7: a coarse DBZ cell with more than dbzPercentage * N wet bins (valid:
\* quality above minQuality; wet: valid and above dbzClearsky) is the mean of
\* the wet values with quality 1 and ths the mean of the wet TH values below
\* 1e5 (NaN without any); a cell with a dry bin otherwise is the smallest
\* value of the source DBZ cube with quality 1 and ths NaN; any other cell
\* stays NaN
C7_DbzCellRule ==
    (Superobed /\ data.vrad.nel = 0) =>
        \A c \in CoarseCells(data.sdbz) :
            LET meas == RolledDbz(data.dbz.meas)[c[1]]
                ths == RolledDbz(data.dbz.ths)[c[1]]
                quals == RolledDbz(data.dbz.quals)[c[1]]
                Valid(b) == DGt(quals[b[1]][b[2]], settings.minQuality)
                Wet(b) == Valid(b) /\ DGt(meas[b[1]][b[2]], settings.dbzClearsky)
                Dry(b) == Valid(b) /\ ~DGt(meas[b[1]][b[2]], settings.dbzClearsky)
                WetTh(b) == Wet(b) /\ DLt(ths[b[1]][b[2]], Dbl(100000))
                wet == SelectSeq(SourceBins(c), Wet)
                wetTh == SelectSeq(SourceBins(c), WetTh)
                dry == SelectSeq(SourceBins(c), Dry)
                values == Values3D(data.dbz.meas)
                out == <<data.sdbz.meas[c[1]][c[2]][c[3]],
                         data.sdbz.ths[c[1]][c[2]][c[3]],
                         data.sdbz.quals[c[1]][c[2]][c[3]]>>
            IN  IF DGt(Dbl(Len(wet)), DMul(settings.dbzPercentage, Dbl(CellSize(c))))
                THEN out = <<Mean([p \in DOMAIN wet |-> meas[wet[p][1]][wet[p][2]]]),
                             IF wetTh = <<>> THEN dNaN
                             ELSE Mean([p \in DOMAIN wetTh |->
                                           ths[wetTh[p][1]][wetTh[p][2]]]),
                             Dbl(1)>>
                ELSE IF dry # <<>>
                THEN out = <<IF values = {} THEN dNaN ELSE DMin(values), dNaN, Dbl(1)>>
                ELSE isnan(out[1]) /\ isnan(out[2]) /\ out[3] # Dbl(1)

\* a DBZ volume with a coarse cell that holds a wet mean and its TH mean
\* and another one that holds the smallest value of the cube, which is not
\* the value of one of its own bins
C7_Witness ==
    /\ Superobed
    /\ data.vrad.nel = 0
    /\ \E c, d \in CoarseCells(data.sdbz) :
          /\ DGt(data.sdbz.meas[c[1]][c[2]][c[3]], settings.dbzClearsky)
          /\ ~isnan(data.sdbz.ths[c[1]][c[2]][c[3]])
          /\ data.sdbz.quals[d[1]][d[2]][d[3]] = Dbl(1)
          /\ isnan(data.sdbz.ths[d[1]][d[2]][d[3]])
          /\ DLe(data.sdbz.meas[d[1]][d[2]][d[3]], settings.dbzClearsky)
          /\ \A b \in DOMAIN SourceBins(d) :
                RolledDbz(data.dbz.meas)[d[1]][SourceBins(d)[b][1]][SourceBins(d)[b][2]]
                    # data.sdbz.meas[d[1]][d[2]][d[3]]

\* the superobed measurement smeas has the metadata that C8 gives for the
\* measurement src
MetadataAsStated(smeas, src) ==
    \A e \in 0 .. src.nel - 1 :
        /\ smeas.naz[e] = Floor(DDiv(Dbl(src.naz[e]), Dbl(settings.rayAngleFactor)))
        /\ smeas.nr[e] = Floor(DDiv(Dbl(src.nr[e]), Dbl(settings.rangeBinFactor)))
        /\ smeas.rscales[e] = DMul(Dbl(settings.rangeBinFactor), src.rscales[e])
        /\ smeas.rstarts[e] = src.rstarts[e]
        /\ smeas.elangles[e] = src.elangles[e]

\* C8: after prepareMetadata(), at every elevation e of each non-empty
\* moment, superobed naz[e] = floor(naz[e] / rayAngleFactor), superobed
\* nr[e] = floor(nr[e] / rangeBinFactor), superobed rscale[e] =
\* rangeBinFactor * rscale[e], and rstart and elangle are copied
C8_SuperobedMetadata ==
    MetadataPrepared =>
        /\ data.dbz.nel > 0 =>
              data.sdbz.nel = data.dbz.nel /\ MetadataAsStated(data.sdbz, data.dbz)
        /\ data.vrad.nel > 0 =>
              data.svrad.nel = data.vrad.nel /\ MetadataAsStated(data.svrad, data.vrad)

\* prepareMetadata() has returned on a VRAD volume of two elevations, one
\* of them with ray and range bin counts that the factors do not divide
C8_Witness ==
    /\ pc = "superob"
    /\ data.vrad.nel = 2
    /\ settings.rayAngleFactor > 1
    /\ settings.rangeBinFactor > 1
    /\ \E e \in 0 .. 1 :
          /\ data.vrad.naz[e] % settings.rayAngleFactor # 0
          /\ data.vrad.nr[e] % settings.rangeBinFactor # 0
          /\ data.svrad.rscales[e] # data.vrad.rscales[e]


-----------------------------------------------------------------------------
(* The writers.  The output file maps the path <<dataset, group, name>> of  *)
(* an attribute or of a dataset to its value; the dataset <<moment, i>>     *)
(* stands for the name datasets[i] of a moment.                             *)

\* HoofAux::eqDbl: equal up to dblEpsilon = 1e-12
eqDbl(val1, val2) ==
    LET diff == DAbs(DSub(val1, val2))
    IN  IsFinite(diff) /\ diff[1] <= (diff[2] \div 1000000) \div 1000000

\* an offset with the minimum and the maximum taken for each other
QuantOffsetSwapped(min, max) == DDiv(DSub(DMul(Dbl(254), max), min), Dbl(253))

\* gain and offset of a field with the values min .. max
QuantGain(min, max) ==
    LET gain == DDiv(DSub(max, min), Dbl(254))
    IN  IF eqDbl(gain, Dbl(0)) THEN Dbl(1) ELSE gain

QuantOffset(min, max) == DDiv(DSub(DMul(Dbl(254), min), max), Dbl(253))

\* <<gain, offset>> that the writers give the 2D field eldata
GainOffset(eldata) ==
    IF ~isallnan2D(eldata)
    THEN LET minmax == nanminmax2D(eldata)
         IN  <<QuantGain(minmax[1], minmax[2]), QuantOffset(minmax[1], minmax[2])>>
    ELSE <<Dbl(1), Dbl(0)>>

\* the double (v - offset + 0.5 * gain) / gain that is cast to a byte
Scaled(v, gain, offset) == DDiv(DAdd(DSub(v, offset), DMul(Ratio(1, 2), gain)), gain)

\* whether static_cast<unsigned char>(x) is defined
FitsByte(x) == IsFinite(x) /\ Trunc(x) \in 0 .. 255

\* static_cast<unsigned char>(x): an arbitrary byte when the truncated x
\* is no unsigned char
ToByte(x, junk) == IF FitsByte(x) THEN Trunc(x) ELSE junk

JunkByteSet == {0, 255}

\* the bytes of the 2D field eldata, prefilled with the byte nodataRaw
Quantized(eldata, gain, offset, nodataRaw, junk) ==
    [j \in DOMAIN eldata |-> [k \in DOMAIN eldata[j] |->
        IF ~isnan(eldata[j][k])
        THEN ToByte(Scaled(eldata[j][k], gain, offset), junk)
        ELSE nodataRaw]]

\* whether a cast of Quantized is undefined
QuantizedOverflows(eldata, gain, offset) ==
    \E j \in DOMAIN eldata : \E k \in DOMAIN eldata[j] :
        ~isnan(eldata[j][k]) /\ ~FitsByte(Scaled(eldata[j][k], gain, offset))

\* the 2D field (naz, nr) of elevation i of the cube vec
Field2D(vec, i, naz, nr) == [j \in 0 .. naz - 1 |-> [k \in 0 .. nr - 1 |-> vec[i][j][k]]]

\* what HoofDealiaser::write writes for elevation i
DealiasedDataset(i, junk) ==
    LET ds == <<"VRAD", i>>
        eldata == Field2D(data.dvrads, i, data.vrad.naz[i], data.vrad.nr[i])
        go == GainOffset(eldata)
        nodataRaw == ToByte(outFile[<<ds, "/data1/what", "nodata">>], junk)
        qual == [j \in DOMAIN eldata |-> [k \in DOMAIN eldata[j] |->
                    IF ~isnan(eldata[j][k]) THEN ToByte(Ratio(3, 2), junk)
                    ELSE ToByte(Ratio(1, 2), junk)]]
    IN  (<<ds, "/data1/what", "gain">> :> go[1])
        @@ (<<ds, "/data1/what", "offset">> :> go[2])
        @@ (<<ds, "/data1", "data">> :> Quantized(eldata, go[1], go[2], nodataRaw, junk))
        @@ (<<ds, "/quality1/what", "gain">> :> DDiv(Dbl(1), Dbl(255)))
        @@ (<<ds, "/quality1/what", "offset">> :> Dbl(0))
        @@ (<<ds, "/quality1/how", "task">> :> "dealiasing")
        @@ (<<ds, "/quality1", "data">> :> qual)

\* one function from the functions fs[0], ..., fs[n - 1] of disjoint domains
RECURSIVE Merged(_, _)
Merged(fs, n) == IF n = 0 THEN <<>> ELSE fs[n - 1] @@ Merged(fs, n - 1)

\* HoofDealiaser::write
DealiaserWrite ==
    /\ pc = "dealiaser.write"
    /\ \E junk \in JunkByteSet :
          LET overflows ==
                  \E i \in 0 .. data.vrad.nel - 1 :
                      LET eldata == Field2D(data.dvrads, i, data.vrad.naz[i],
                                            data.vrad.nr[i])
                          go == GainOffset(eldata)
                      IN  \/ QuantizedOverflows(eldata, go[1], go[2])
                          \/ ~FitsByte(outFile[<<<<"VRAD", i>>, "/data1/what", "nodata">>])
          IN  /\ junk = 0 \/ overflows
              /\ outFile' = Merged([i \in 0 .. data.vrad.nel - 1 |->
                                       DealiasedDataset(i, junk)], data.vrad.nel)
                            @@ outFile
    /\ pc' = "dealiaser.output"
    /\ UNCHANGED <<settings, data, dealiaser, superober, homogenizer, logFile, main>>

\* the quality field elQual as bytes, with gainQual = 1/255 and offsetQual = 0
QuantizedQuality(elQual, junk) ==
    Quantized(elQual, DDiv(Dbl(1), Dbl(255)), Dbl(0), 0, junk)

\* the attributes that HoofSuperober::write writes for the dataset ds
\* superobed to naz rays of nr bins of length rscale
SuperobedAttributes(ds, naz, nr, rscale) ==
    (<<ds, "/where", "nbins">> :> Dbl(nr))
    @@ (<<ds, "/where", "nrays">> :> Dbl(naz))
    @@ (<<ds, "/where", "rscale">> :> rscale)
    @@ (<<ds, "/data1/what", "undetect">> :> Dbl(0))
    @@ (<<ds, "/quality1/what", "gain">> :> DDiv(Dbl(1), Dbl(255)))
    @@ (<<ds, "/quality1/what", "offset">> :> Dbl(0))
    @@ (<<ds, "/quality1/how", "task">> :> "superobing")

\* what HoofSuperober::write writes for elevation i of DBZ
SuperobedDbzDataset(i, junk) ==
    LET ds == <<"DBZ", i>>
        naz == data.sdbz.naz[i]
        nr == data.sdbz.nr[i]
        elDbz == Field2D(data.sdbz.meas, i, naz, nr)
        elTh == Field2D(data.sdbz.ths, i, naz, nr)
        elQual == Field2D(data.sdbz.quals, i, naz, nr)
        goDbz == GainOffset(elDbz)
        goTh == GainOffset(elTh)
        nodataRawDbz == ToByte(outFile[<<ds, "/data1/what", "nodata">>], junk)
        nodataRawTh == ToByte(outFile[<<ds, "/data2/what", "nodata">>], junk)
    IN  SuperobedAttributes(ds, naz, nr, data.sdbz.rscales[i])
        @@ (<<ds, "/data1/what", "gain">> :> goDbz[1])
        @@ (<<ds, "/data1/what", "offset">> :> goDbz[2])
        @@ (<<ds, "/data2/what", "gain">> :> goTh[1])
        @@ (<<ds, "/data2/what", "offset">> :> goTh[2])
        @@ (<<ds, "/data1", "data">> :>
               Quantized(elDbz, goDbz[1], goDbz[2], nodataRawDbz, junk))
        @@ (<<ds, "/data2", "data">> :>
               Quantized(elTh, goTh[1], goTh[2], nodataRawTh, junk))
        @@ (<<ds, "/quality1", "data">> :> QuantizedQuality(elQual, junk))

\* what HoofSuperober::write writes for elevation i of VRAD
SuperobedVradDataset(i, junk) ==
    LET ds == <<"VRAD", i>>
        naz == data.svrad.naz[i]
        nr == data.svrad.nr[i]
        elVrad == Field2D(data.svrad.meas, i, naz, nr)
        elQual == Field2D(data.svrad.quals, i, naz, nr)
        go == GainOffset(elVrad)
    IN  SuperobedAttributes(ds, naz, nr, data.svrad.rscales[i])
        @@ (<<ds, "/data1/what", "gain">> :> go[1])
        @@ (<<ds, "/data1/what", "offset">> :> go[2])
        @@ (<<ds, "/data1/what", "nodata">> :> Dbl(255))
        @@ (<<ds, "/data1", "data">> :> Quantized(elVrad, go[1], go[2], 255, junk))
        @@ (<<ds, "/quality1", "data">> :> QuantizedQuality(elQual, junk))

\* whether a cast of HoofSuperober::write is undefined
SuperoberWriteOverflows ==
    \/ \E i \in 0 .. data.dbz.nel - 1 :
          LET naz == data.sdbz.naz[i]
              nr == data.sdbz.nr[i]
              elDbz == Field2D(data.sdbz.meas, i, naz, nr)
              elTh == Field2D(data.sdbz.ths, i, naz, nr)
          IN  \/ QuantizedOverflows(elDbz, GainOffset(elDbz)[1], GainOffset(elDbz)[2])
              \/ QuantizedOverflows(elTh, GainOffset(elTh)[1], GainOffset(elTh)[2])
              \/ QuantizedOverflows(Field2D(data.sdbz.quals, i, naz, nr),
                                    DDiv(Dbl(1), Dbl(255)), Dbl(0))
              \/ ~FitsByte(outFile[<<<<"DBZ", i>>, "/data1/what", "nodata">>])
              \/ ~FitsByte(outFile[<<<<"DBZ", i>>, "/data2/what", "nodata">>])
    \/ \E i \in 0 .. data.vrad.nel - 1 :
          LET naz == data.svrad.naz[i]
              nr == data.svrad.nr[i]
              elVrad == Field2D(data.svrad.meas, i, naz, nr)
          IN  \/ QuantizedOverflows(elVrad, GainOffset(elVrad)[1], GainOffset(elVrad)[2])
              \/ QuantizedOverflows(Field2D(data.svrad.quals, i, naz, nr),
                                    DDiv(Dbl(1), Dbl(255)), Dbl(0))

\* HoofSuperober::write
SuperoberWrite ==
    /\ pc = "superober.write"
    /\ \E junk \in JunkByteSet :
          /\ junk = 0 \/ SuperoberWriteOverflows
          /\ outFile' = Merged([i \in 0 .. data.vrad.nel - 1 |->
                                   SuperobedVradDataset(i, junk)], data.vrad.nel)
                        @@ Merged([i \in 0 .. data.dbz.nel - 1 |->
                                      SuperobedDbzDataset(i, junk)], data.dbz.nel)
                        @@ outFile
    /\ pc' = "superober.written"
    /\ UNCHANGED <<settings, data, dealiaser, superober, homogenizer, logFile, main>>

\* the output file of the homogenizer: the nodata attributes of the
\* datasets of nel elevations of a moment, DBZ with the data groups of the
\* reflectivity and of TH
HomogenizedFile(moment, nel) ==
    [p \in {<<<<moment, i>>, group, "nodata">> :
               i \in 0 .. nel - 1,
               group \in IF moment = "DBZ" THEN {"/data1/what", "/data2/what"}
                         ELSE {"/data1/what"}} |->
        Dbl(255)]

MaxWCells == 3

\* the doubles of a bin of a field to write
WriteValueSet == {dNaN, Dbl(0), Dbl(127), Dbl(254)}

\* the superobed DBZ bins <<reflectivity, TH, quality>> and the superobed
\* VRAD bins <<velocity, quality>> to write
WriteDbzBinSet ==
    {<<dNaN, dNaN, dNaN>>, <<Dbl(0), Dbl(254), Dbl(1)>>,
     <<Dbl(127), Dbl(254), Dbl(1)>>, <<Dbl(254), dNaN, Dbl(1)>>,
     <<Dbl(0), Dbl(0), Dbl(1)>>}

WriteVradBinSet ==
    {<<dNaN, Dbl(0)>>, <<Dbl(0), Dbl(1)>>, <<Dbl(127), Dbl(1)>>,
     <<Dbl(254), Dbl(1)>>}

WriteShapes == Shapes(1, MaxWCells) \cup Shapes(2, MaxWCells)

\* a measurement of nel elevations of which nothing else is read
Datasets(nel) == [NoMeasurement EXCEPT !.nel = nel]

\* HoofDealiaser::write is about to be called on dealiased velocities, or
\* HoofSuperober::write on a superobed VRAD or DBZ measurement
InitWrite ==
    /\ \E sh \in WriteShapes :
          LET naz == sh[1]
              nr == sh[2]
              nel == Cardinality(DOMAIN naz)
              bins == Bins(naz, nr)
          IN  \/ \E f \in [bins -> WriteValueSet] :
                    /\ pc = "dealiaser.write"
                    /\ settings = [DefaultSettings EXCEPT !.dealiasing = TRUE]
                    /\ data = [NoData EXCEPT
                                  !.vrad = VradMeasurement(naz, nr, f),
                                  !.dvrads = VradMeasurement(naz, nr, f).meas]
                    /\ outFile = HomogenizedFile("VRAD", nel)
              \/ \E f \in [bins -> WriteVradBinSet] :
                    /\ pc = "superober.write"
                    /\ settings = SuperobSettings(1, 1)
                    /\ data = [NoData EXCEPT
                                  !.vrad = Datasets(nel),
                                  !.svrad = [DbzMeasurement(naz, nr,
                                      [b \in bins |-> <<f[b][1], dNaN, f[b][2]>>])
                                      EXCEPT !.ths = <<>>]]
                    /\ outFile = HomogenizedFile("VRAD", nel)
              \/ \E f \in [bins -> WriteDbzBinSet] :
                    /\ pc = "superober.write"
                    /\ settings = SuperobSettings(1, 1)
                    /\ data = [NoData EXCEPT !.dbz = Datasets(nel),
                                             !.sdbz = DbzMeasurement(naz, nr, f)]
                    /\ outFile = HomogenizedFile("DBZ", nel)
    /\ dealiaser = NewDealiaser
    /\ superober = NewSuperober
    /\ OneFile

NextWrite ==
    \/ DealiaserWrite
    \/ SuperoberWrite

SpecWrite == InitWrite /\ [][NextWrite]_vars


-----------------------------------------------------------------------------
(* Properties of the writers, over the behaviours of SpecWrite.             *)

\* a 2D field with what was written for it
WrittenField(eldata, ds, group, what) ==
    [field |-> eldata,
     gain |-> outFile[<<ds, what, "gain">>],
     offset |-> outFile[<<ds, what, "offset">>],
     nodata |-> outFile[<<ds, what, "nodata">>],
     data |-> outFile[<<ds, group, "data">>]]

\* the fields that the quantized writers have written
WrittenFields ==
    IF pc = "dealiaser.output"
    THEN {WrittenField(Field2D(data.dvrads, i, data.vrad.naz[i], data.vrad.nr[i]),
                       <<"VRAD", i>>, "/data1", "/data1/what") :
             i \in 0 .. data.vrad.nel - 1}
    ELSE IF pc = "superober.written"
    THEN {WrittenField(Field2D(data.sdbz.meas, i, data.sdbz.naz[i], data.sdbz.nr[i]),
                       <<"DBZ", i>>, "/data1", "/data1/what") :
             i \in 0 .. data.dbz.nel - 1}
         \cup
         {WrittenField(Field2D(data.sdbz.ths, i, data.sdbz.naz[i], data.sdbz.nr[i]),
                       <<"DBZ", i>>, "/data2", "/data2/what") :
             i \in 0 .. data.dbz.nel - 1}
         \cup
         {WrittenField(Field2D(data.svrad.meas, i, data.svrad.naz[i], data.svrad.nr[i]),
                       <<"VRAD", i>>, "/data1", "/data1/what") :
             i \in 0 .. data.vrad.nel - 1}
    ELSE {}

\* the cells <<j, k>> of a 2D field
CellsOf(eldata) ==
    UNION {{<<j, k>> : k \in DOMAIN eldata[j]} : j \in DOMAIN eldata}

\* C9: with gain = (max - min) / 254 and offset = (254 min - max) / 253 over
\* the non-NaN cells of a written field, every non-NaN cell is written as the
\* byte floor((v - offset + gain / 2) / gain), which lies in 0 .. 254, and
\* only NaN cells carry the nodata byte
C9_BytesBelowNodata ==
    \A w \in WrittenFields :
        ~isallnan2D(w.field) =>
            LET min == DMin(Values2D(w.field))
                max == DMax(Values2D(w.field))
            IN  /\ w.offset = DDiv(DSub(DMul(Dbl(254), min), max), Dbl(253))
                /\ \/ w.gain = DDiv(DSub(max, min), Dbl(254))
                   \/ max = min /\ w.gain = Dbl(1)
                /\ \A c \in CellsOf(w.field) :
                      LET v == w.field[c[1]][c[2]]
                          byte == w.data[c[1]][c[2]]
                      IN  IF isnan(v) THEN Dbl(byte) = w.nodata
                          ELSE /\ byte = Floor(DDiv(DAdd(DSub(v, w.offset),
                                                         DDiv(w.gain, Dbl(2))),
                                                    w.gain))
                               /\ byte \in 0 .. 254
                               /\ Dbl(byte) # w.nodata

\* C10: every non-NaN cell v of a written field, written as the byte b,
\* reads back as v' = gain * b + offset with |v - v'| <= gain, also when
\* max = min, where gain is 1
C10_RoundTripWithinGain ==
    \A w \in WrittenFields :
        \A c \in CellsOf(w.field) :
            LET v == w.field[c[1]][c[2]]
                decoded == DAdd(DMul(w.gain, Dbl(w.data[c[1]][c[2]])), w.offset)
            IN  ~isnan(v) => DLe(DAbs(DSub(v, decoded)), w.gain)

\* a field of three different values and a field of one value have been
\* written, the latter with gain 1
C10_Witness ==
    \E w1, w2 \in WrittenFields :
        /\ Cardinality(Values2D(w1.field)) >= 3
        /\ Cardinality(Values2D(w2.field)) = 1
        /\ w2.gain = Dbl(1)


-----------------------------------------------------------------------------
(* main: the loop on the files of the input folder.  The homogenizer is    *)
(* taken by what it leaves: its warnings and errors, the HoofData object    *)
(* that storeData fills and the homogenized output file.                    *)

MaxFiles == 2

\* the settings of a run of main
MainSettings(dealiasing, superobing) ==
    [SuperobSettings(1, 1) EXCEPT
        !.printLogWarnings = TRUE,
        !.dealiasing = dealiasing, !.superobing = superobing,
        !.zSectorSize = Dbl(100), !.zMax = Dbl(160), !.minGoodPoints = 1,
        !.maxWind = Dbl(40)]

\* the HoofData objects that storeData leaves: a file without DBZ and VRAD
\* datasets, with one VRAD elevation of 2 rays, with one DBZ elevation of
\* one bin
MainVolumes ==
    LET naz == [e \in {0} |-> 2]
        nr == [e \in {0} |-> 1]
        bins == Bins(naz, nr)
        one == [e \in {0} |-> 1]
    IN  {NoData}
        \cup {[NoData EXCEPT !.vrad =
                  [VradMeasurement(naz, nr, f) EXCEPT
                      !.zs = Cube(1, 2, 1, bins, [b \in bins |-> HeightOf(b[1], b[3])])]] :
              f \in [bins -> {dNaN, Dbl(10)}]}
        \cup {[NoData EXCEPT !.dbz = DbzMeasurement(one, one, f)] :
              f \in [Bins(one, one) -> {<<dNaN, dNaN, dNaN>>,
                                        <<Dbl(20), Dbl(25), Dbl(1)>>}]}

\* the files of the input folder, each by what the homogenizer makes of it:
\* a file that checkAndWrite rejects, and the files it accepts
MainEntries ==
    {[homogenizer |-> error(NoWorker, "no quantities to write to output file"),
      data |-> NoData, outFile |-> <<>>]}
    \cup {[homogenizer |-> w, data |-> d,
           outFile |-> HomogenizedFile("VRAD", d.vrad.nel)
                       @@ HomogenizedFile("DBZ", d.dbz.nel)] :
          w \in {NoWorker}, d \in MainVolumes}
    \cup {[homogenizer |->
               warning(NoWorker, "no date or elevation angle in dataset, skipping it"),
           data |-> NoData, outFile |-> <<>>]}

InitMain ==
    /\ \E dealiasing \in BOOLEAN, superobing \in BOOLEAN :
          settings = MainSettings(dealiasing, superobing)
    /\ \E n \in 1 .. MaxFiles : \E entries \in [1 .. n -> MainEntries] :
          main = [entries |-> entries, allFiles |-> 0, goodFiles |-> 0]
    /\ data = NoData
    /\ homogenizer = NoWorker
    /\ dealiaser = NoWorker
    /\ superober = NoWorker
    /\ outFile = <<>>
    /\ logFile = <<>>
    /\ pc = "main.loop"

\* HoofWorker::output: the log after the call
output(worker, logfile) ==
    logfile
    \o (IF settings.printLogWarnings
        THEN [i \in 1 .. Len(worker.warnings) |-> <<"warningTag", worker.warnings[i]>>]
        ELSE <<>>)
    \o [i \in 1 .. Len(worker.errors) |-> <<"errorTag", worker.errors[i]>>]

\* handleErrors: whether the worker has errors (it then writes them to the
\* log and closes the files)
handleErrors(worker) == Len(worker.errors) # 0

\* main from the head of the loop on the files to the end of the
\* homogenization of the next file
Homogenize ==
    /\ pc = "main.loop"
    /\ main.entries # <<>>
    /\ LET entry == Head(main.entries)
       IN  /\ main' = [main EXCEPT !.entries = Tail(@), !.allFiles = @ + 1]
           /\ homogenizer' = entry.homogenizer
           /\ outFile' = entry.outFile
           /\ logFile' = output(entry.homogenizer, <<>>)
           /\ IF handleErrors(entry.homogenizer)
              THEN /\ pc' = "main.loop"
                   /\ data' = NoData
                   /\ dealiaser' = NoWorker
                   /\ superober' = NoWorker
              ELSE /\ data' = IF settings.dealiasing \/ settings.superobing
                              THEN entry.data ELSE NoData
                   /\ dealiaser' = IF settings.dealiasing THEN NewDealiaser
                                   ELSE NoWorker
                   /\ superober' = IF ~settings.dealiasing /\ settings.superobing
                                   THEN NewSuperober ELSE NoWorker
                   /\ pc' = IF settings.dealiasing THEN "dealiaser.checkData"
                            ELSE IF settings.superobing THEN "superober.checkData"
                            ELSE "main.finish"
    /\ UNCHANGED settings

\* main from the return of HoofDealiaser::write to the superobing
DealiaserOutput ==
    /\ pc = "dealiaser.output"
    /\ logFile' = output(dealiaser, logFile)
    /\ superober' = IF settings.superobing THEN NewSuperober ELSE superober
    /\ pc' = IF settings.superobing THEN "superober.checkData" ELSE "main.finish"
    /\ UNCHANGED <<settings, data, dealiaser, outFile, homogenizer, main>>

\* main from the end of the stages to the head of the loop: the file is
\* counted and its files are closed
FinishFile ==
    /\ pc \in {"superober.written", "main.finish"}
    /\ main' = [main EXCEPT !.goodFiles = @ + 1]
    /\ pc' = "main.loop"
    /\ UNCHANGED <<settings, data, dealiaser, superober, outFile, homogenizer,
                   logFile>>

NextMain ==
    \/ Homogenize
    \/ DealiaserCheckData
    \/ CalculateWindModelQtys
    \/ DetermineHeightSectors
    \/ CalculateWindModels
    \/ Dealias
    \/ DealiaserWrite
    \/ DealiaserOutput
    \/ SuperoberCheckData
    \/ PrepareMetadata
    \/ Superob
    \/ SuperoberWrite
    \/ FinishFile

SpecMain == InitMain /\ [][NextMain]_vars


-----------------------------------------------------------------------------
(* Properties of main, over the behaviours of SpecMain.                     *)

\* the stages of the dealiasing that follow HoofDealiaser::checkData, and
\* the stages of the superobing
AfterDealiaserCheck ==
    {"determineHeightSectors", "calculateWindModels", "dealias",
     "dealiaser.write", "dealiaser.output"}

Superobing == {"superober.checkData", "prepareMetadata", "superob",
               "superober.write", "superober.written"}

\* C11: when the data check of the dealiaser has recorded an error for a
\* file, main is either at the return of that check or back at the head of
\* the loop on the files, no later stage of the dealiasing and no stage of
\* the superobing having run on the file, and the file is not counted as
\* analysed.
C11_DealiaserErrorEndsFile ==
    (settings.dealiasing /\ dealiaser.errors # <<>>) =>
        /\ pc \notin AfterDealiaserCheck \cup Superobing \cup {"main.finish"}
        /\ pc = "main.loop" => main.goodFiles < main.allFiles

\* the warnings and errors of the worker are in the log of the file
Logged(worker) ==
    /\ \A i \in DOMAIN worker.warnings :
          \E l \in DOMAIN logFile : logFile[l] = <<"warningTag", worker.warnings[i]>>
    /\ \A i \in DOMAIN worker.errors :
          \E l \in DOMAIN logFile : logFile[l] = <<"errorTag", worker.errors[i]>>

\* C12: when main is done with a file, the log of the file holds the
\* warnings and the errors of the homogenizer, of the dealiaser and of the
\* superober that ran on it.
C12_StagesLogged ==
    (pc = "main.loop" /\ main.allFiles > 0) =>
        Logged(homogenizer) /\ Logged(dealiaser) /\ Logged(superober)


-----------------------------------------------------------------------------
(* Properties of the wind model quantities and of the height sectors, over *)
(* the behaviours of SpecDealias.                                           *)

\* calculateWindModelQtys() has returned
QtysCalculated ==
    pc \in {"determineHeightSectors", "calculateWindModels", "dealias",
            "dealiaser.write"}

\* the measurements at the rays after and before the bin b, at its range
NeighbourMeas(b) ==
    LET naz == data.vrad.naz[b[1]]
    IN  {data.vrad.meas[b[1]][(b[2] + 1) % naz][b[3]],
         data.vrad.meas[b[1]][(b[2] - 1 + naz) % naz][b[3]]}

\* C13 (as stated): after calculateWindModelQtys(), A, B and D are all NaN
\* at every bin whose measurement is NaN.
C13_NaNMeasGivesNaNQtys ==
    QtysCalculated =>
        \A b \in VradBins :
            isnan(At(data.vrad.meas, b)) =>
                /\ isnan(At(dealiaser.As, b))
                /\ isnan(At(dealiaser.Bs, b))
                /\ isnan(At(dealiaser.Ds, b))

\* C13 (amended): after calculateWindModelQtys(), A and B are NaN at every
\* bin whose measurement is NaN, and D of a bin is NaN exactly when the
\* measurement at the ray after it or at the ray before it (with
\* wrap-around, at the same range) is NaN, whatever the measurement of the
\* bin itself.
C13_NaNFromNeighbours ==
    QtysCalculated =>
        \A b \in VradBins :
            /\ isnan(At(data.vrad.meas, b)) =>
                  isnan(At(dealiaser.As, b)) /\ isnan(At(dealiaser.Bs, b))
            /\ isnan(At(dealiaser.Ds, b)) <=> (\E m \in NeighbourMeas(b) : isnan(m))

\* a bin without a measurement between two rays with measurements, its D
\* defined; and a bin with a measurement next to one without, its D NaN
C13_Witness ==
    /\ QtysCalculated
    /\ \E b \in VradBins :
          /\ isnan(At(data.vrad.meas, b))
          /\ \A m \in NeighbourMeas(b) : ~isnan(m)
          /\ ~isnan(At(dealiaser.Ds, b))
          /\ isnan(At(dealiaser.As, b))
    /\ \E b \in VradBins :
          /\ ~isnan(At(data.vrad.meas, b))
          /\ isnan(At(dealiaser.Ds, b))

\* C14: after calculateWindModelQtys(), D at the first and at the last ray
\* of every elevation is finite at every range at which the measurements of
\* both neighbouring rays (with wrap-around) are defined, and the azimuth
\* difference that divides there is not zero.
C14_WrapKeepsDFinite ==
    QtysCalculated =>
        \A b \in VradBins :
            (b[2] = 0 \/ b[2] = data.vrad.naz[b[1]] - 1) =>
                /\ daz(data.vrad.azimuths[b[1]], b[2], data.vrad.naz[b[1]]) # Dbl(0)
                /\ (\A m \in NeighbourMeas(b) : ~isnan(m)) =>
                       IsFinite(At(dealiaser.Ds, b))

\* an elevation of 4 rays with a finite D, not zero, at its last ray and a
\* finite D at its first ray
C14_Witness ==
    /\ QtysCalculated
    /\ \E e \in DOMAIN data.vrad.naz :
          /\ data.vrad.naz[e] = 4
          /\ IsFinite(dealiaser.Ds[e][3][0])
          /\ dealiaser.Ds[e][3][0] # Dbl(0)
          /\ IsFinite(dealiaser.Ds[e][0][0])


\* determineHeightSectors() has returned
SectorsDetermined == pc \in {"calculateWindModels", "dealias", "dealiaser.write"}

\* zceil = min(max defined height, zMax)
ZCeil ==
    LET zdatamax == DMax({z \in Values3D(data.vrad.zs) : ~isnan(z)})
    IN  IF DLt(zdatamax, settings.zMax) THEN zdatamax ELSE settings.zMax

\* floor((z - site_height) / zSectorSize)
SectorOf(z) == Floor(DDiv(DSub(z, data.height), settings.zSectorSize))

\* the places <<n, p>> of zIdxs that hold the bin b
PlacesOf(b) ==
    {np \in UNION {{n} \X DOMAIN data.zIdxs[n] : n \in DOMAIN data.zIdxs} :
        data.zIdxs[np[1]][np[2]] = b}

\* z, meas and D of the bin b are defined and z is below zceil
EligibleBin(b) ==
    /\ ~isnan(At(data.vrad.zs, b))
    /\ ~isnan(At(data.vrad.meas, b))
    /\ ~isnan(At(dealiaser.Ds, b))
    /\ DLt(At(data.vrad.zs, b), ZCeil)

\* C15: after determineHeightSectors() there are nl = floor((zceil -
\* site_height) / zSectorSize) + 1 sectors; a bin is in zIdxs exactly when
\* its z, meas and D are defined and z < zceil, then once, in the sector
\* n = floor((z - site_height) / zSectorSize), with 0 <= n < nl and
\* zStarts[n] <= z < zEnds[n].
C15_SectorsPartitionEligibleBins ==
    SectorsDetermined =>
        LET nl == SectorOf(ZCeil) + 1
        IN  /\ DOMAIN data.zIdxs = 0 .. nl - 1
            /\ DOMAIN data.zStarts = 0 .. nl - 1
            /\ DOMAIN data.zEnds = 0 .. nl - 1
            /\ \A b \in VradBins :
                  IF EligibleBin(b)
                  THEN LET z == At(data.vrad.zs, b)
                           n == SectorOf(z)
                       IN  /\ Cardinality(PlacesOf(b)) = 1
                           /\ \A np \in PlacesOf(b) : np[1] = n
                           /\ 0 <= n /\ n < nl
                           /\ DLe(data.zStarts[n], z) /\ DLt(z, data.zEnds[n])
                  ELSE PlacesOf(b) = {}

\* two sectors with a bin each, a bin left out for its height above the
\* ceiling and a bin left out for its missing measurement
C15_Witness ==
    /\ SectorsDetermined
    /\ DOMAIN data.zIdxs = 0 .. 1
    /\ data.zIdxs[0] # <<>> /\ data.zIdxs[1] # <<>>
    /\ \E b \in VradBins :
          /\ DGe(At(data.vrad.zs, b), ZCeil)
          /\ ~isnan(At(data.vrad.meas, b)) /\ ~isnan(At(dealiaser.Ds, b))
          /\ PlacesOf(b) = {}
    /\ \E b \in VradBins :
          isnan(At(data.vrad.meas, b)) /\ DLt(At(data.vrad.zs, b), ZCeil)


\* calculateWindModels() has returned
ModelsCalculated == pc \in {"dealias", "dealiaser.write"}

\* the places (e, a, r) of the cubes of the VRAD measurement
CubePlaces ==
    (0 .. data.vrad.nel - 1) \X (0 .. data.vrad.nazMax - 1)
        \X (0 .. data.vrad.nrMax - 1)

\* the height sectors that hold at least minGoodPoints bins
GoodSectors ==
    {n \in DOMAIN data.zIdxs : Len(data.zIdxs[n]) >= settings.minGoodPoints}

\* C16: after calculateWindModels(), wModels is defined only at bins of
\* height sectors that hold at least minGoodPoints eligible bins, every
\* defined wModels is below maxWind in absolute value, and no warning and no
\* error has been recorded for the sectors that were skipped.
C16_ModelsOnlyWhereFittedAndSlow ==
    ModelsCalculated =>
        /\ \A b \in CubePlaces :
              ~isnan(At(data.wModels, b)) =>
                  /\ \E np \in PlacesOf(b) : np[1] \in GoodSectors
                  /\ DLt(DAbs(At(data.wModels, b)), settings.maxWind)
        /\ dealiaser.warnings = <<>>
        /\ \A i \in DOMAIN dealiaser.errors :
              dealiaser.errors[i] \in {"no VRAD datasets in file",
                                       "all data in VRAD datasets are NaN"}

\* a sector of at least minGoodPoints bins with a model at one of its bins
\* and none at another, whose model velocity is not below maxWind
C16_Witness ==
    /\ ModelsCalculated
    /\ \E b \in VradBins : ~isnan(At(data.wModels, b))
    /\ \E b \in VradBins :
          /\ isnan(At(data.wModels, b))
          /\ \E np \in PlacesOf(b) : np[1] \in GoodSectors
    /\ dealiaser.errors = <<>>


\* ---------------------------------------------------------------------
\* The wind fit of a sector
\* ---------------------------------------------------------------------

\* the quantities As, Bs, Ds of the bins of sector z
SectorAs(z) == subset(dealiaser.As, data.zIdxs[z])
SectorBs(z) == subset(dealiaser.Bs, data.zIdxs[z])
SectorDs(z) == subset(dealiaser.Ds, data.zIdxs[z])

\* the residuals -A_i u + B_i v - D_i of sector z for the coefficients c
Residuals(z, c) ==
    [i \in 1 .. Len(data.zIdxs[z]) |->
        DSub(DAdd(DMul(DNeg(SectorAs(z)[i]), c[1]), DMul(SectorBs(z)[i], c[2])),
             SectorDs(z)[i])]

\* c satisfies the normal equations of sector z for the design matrix with
\* the columns (-A, B) and the right-hand side D
NormalEquations(z, c) ==
    /\ Dot([i \in 1 .. Len(data.zIdxs[z]) |-> DNeg(SectorAs(z)[i])], Residuals(z, c)) = Dbl(0)
    /\ Dot(SectorBs(z), Residuals(z, c)) = Dbl(0)

SourceVelocities == IF settings.dealiasing THEN data.dvrads ELSE data.vrad.meas

\* the cube rolled is vec rolled by RayRoll modulo the number of rays of
\* each elevation of the measurement m
RolledModuloOwnRays(rolled, vec, m) ==
    \A e \in 0 .. m.nel - 1 : \A a \in 0 .. m.naz[e] - 1 : \A r \in 0 .. m.nr[e] - 1 :
        rolled[e][(a + RayRoll) % m.naz[e]][r] = vec[e][a][r]

\* C17: the source cubes that superob() aggregates are the measured cubes
\* rolled along the azimuth by zmax modulo the number of rays of each
\* elevation: rolled[e][(a + zmax) mod naz[e]][r] = orig[e][a][r]
C17_RollIsModuloOwnRays ==
    Superobed =>
        /\ RolledModuloOwnRays(RolledVelocities, SourceVelocities, data.vrad)
        /\ RolledModuloOwnRays(RolledDbz(data.dbz.meas), data.dbz.meas, data.dbz)
        /\ RolledModuloOwnRays(RolledDbz(data.dbz.ths), data.dbz.ths, data.dbz)


\* ---------------------------------------------------------------------
\* The range borders of the coarse cells
\* ---------------------------------------------------------------------

\* the measurement whose borders superob() leaves in the superober
BorderSource == IF data.vrad.nel > 0 THEN data.vrad ELSE data.dbz

\* nr' of elevation i
CoarseNr(i) == BorderSource.nr[i] \div settings.rangeBinFactor

\* C18, as stated: rangeBorders of every elevation has nr' + 1 entries,
\* entry j is j * binFactor for j < nr' and the final entry is nr
C18_LastBorderIsNr ==
    Superobed =>
        \A i \in DOMAIN superober.rangeBorders :
            LET borders == superober.rangeBorders[i]
            IN  /\ DOMAIN borders = 0 .. CoarseNr(i)
                /\ \A j \in 0 .. CoarseNr(i) - 1 : borders[j] = j * settings.rangeBinFactor
                /\ borders[CoarseNr(i)] = BorderSource.nr[i]

\* C18, amended: rangeBorders of every elevation has nr' + 1 entries and
\* entry j is j * binFactor for every j <= nr'; the final entry
\* nr' * binFactor is nr exactly when binFactor divides nr, otherwise it is
\* below nr and the last nr mod binFactor source gates are in no coarse cell
C18_LastBorderIsLastFullCell ==
    Superobed =>
        \A i \in DOMAIN superober.rangeBorders :
            LET borders == superober.rangeBorders[i]
                binF == settings.rangeBinFactor
                nr == BorderSource.nr[i]
            IN  /\ DOMAIN borders = 0 .. CoarseNr(i)
                /\ \A j \in 0 .. CoarseNr(i) : borders[j] = j * binF
                /\ borders[CoarseNr(i)] = nr - (nr % binF)
                /\ borders[CoarseNr(i)] = nr <=> nr % binF = 0

\* 3 range bins superobed by pairs: the borders are 0 and 2
C18_Witness ==
    /\ Superobed
    /\ \E i \in DOMAIN superober.rangeBorders :
          /\ BorderSource.nr[i] = 3
          /\ settings.rangeBinFactor = 2
          /\ superober.rangeBorders[i] = (0 :> 0 @@ 1 :> 2)
          /\ data.svrad.nr[i] = 1


\* ---------------------------------------------------------------------
\* The shrink amounts of the coarse range bins
\* ---------------------------------------------------------------------

\* the z in [0, zmax] whose clamped limIdx(z) exceeds the coarse range index
\* j of elevation i
TiersAbove(i, j) ==
    {z \in 0 .. RayRoll :
        LimIdx(z, RayRoll,
               ArcLimit(BorderSource.naz[i], settings.rangeBinFactor,
                        BorderSource.rscales[i]),
               Cardinality(DOMAIN superober.rangeBorders[i])) > j}

\* the smallest of them, or zmax (the last tier, extended) when there is
\* none
SmallestTier(i, j) ==
    IF TiersAbove(i, j) = {} THEN RayRoll
    ELSE CHOOSE z \in TiersAbove(i, j) : \A y \in TiersAbove(i, j) : z <= y

\* C20: for every coarse range index j, the ray borders are shrunk by
\* facSub(j), the smallest z in [0, zmax] whose clamped limIdx(z) exceeds j,
\* the last tier covering all remaining j
C20_FacSubIsSmallestTierAbove ==
    Superobed =>
        \A i \in DOMAIN superober.startRayBorders :
            \A j \in DOMAIN superober.startRayBorders[i] :
                \A k \in DOMAIN superober.startRayBorders[i][j] :
                    /\ superober.startRayBorders[i][j][k]
                           = k * settings.rayAngleFactor + SmallestTier(i, j)
                    /\ superober.endRayBorders[i][j][k]
                           = (k + 1) * settings.rayAngleFactor - SmallestTier(i, j)


\* ---------------------------------------------------------------------
\* The ray borders of the coarse cells
\* ---------------------------------------------------------------------

\* the superobed measurement whose borders superob() leaves in the superober
BorderCoarse == IF data.vrad.nel > 0 THEN data.svrad ELSE data.sdbz

\* the number of source rays of the coarse cell (j, k) of elevation i
RaysFolded(i, j, k) ==
    superober.endRayBorders[i][j][k] - superober.startRayBorders[i][j][k]

\* the tier lookup of the kept borders stayed inside limIdxs
LookupInRange == ~ReadsLimIdxsOutOfRange(BorderSource, BorderCoarse)

C28_TierLookupInRange ==
    Superobed =>
        /\ ~ReadsLimIdxsOutOfRange(data.dbz, data.sdbz)
        /\ ~ReadsLimIdxsOutOfRange(data.vrad, data.svrad)


\* C22: the ray borders of every coarse cell (j, k) of elevation e are
\* k * rayFactor + facSub(j) and (k + 1) * rayFactor - facSub(j) for a
\* facSub(j) in [0, zmax], so that 0 <= startRay < endRay <= naz[e] and
\* superob() reads no ray outside the source cube
C22_RayBordersInsideCube ==
    Superobed =>
        \A i \in DOMAIN superober.startRayBorders :
            \A j \in DOMAIN superober.startRayBorders[i] :
                \A k \in DOMAIN superober.startRayBorders[i][j] :
                    /\ \E f \in 0 .. RayRoll :
                          /\ superober.startRayBorders[i][j][k]
                                 = k * settings.rayAngleFactor + f
                          /\ superober.endRayBorders[i][j][k]
                                 = (k + 1) * settings.rayAngleFactor - f
                    /\ 0 <= superober.startRayBorders[i][j][k]
                    /\ superober.startRayBorders[i][j][k] < superober.endRayBorders[i][j][k]
                    /\ superober.endRayBorders[i][j][k] <= BorderSource.naz[i]


\* ---------------------------------------------------------------------
\* The superober on moments without values
\* ---------------------------------------------------------------------

\* the DBZ, the VRAD measurements hold no value
DbzAllNaN == isallnan3D(data.dbz.meas)

VradAllNaN == isallnan3D(data.vrad.meas)

\* C23: when exactly one of DBZ and VRAD holds no value, checkData() records
\* the warning of that moment and no error, and superob() leaves the coarse
\* measurement field of that moment without values; when both hold no value
\* or both are empty, checkData() records an error
C23_OneMomentNaNWarns ==
    Superobed =>
        /\ (DbzAllNaN /\ ~VradAllNaN) =>
              /\ superober.errors = <<>>
              /\ superober.warnings = <<"all DBZ data is NaN">>
              /\ isallnan3D(data.sdbz.meas)
        /\ (~DbzAllNaN /\ VradAllNaN) =>
              /\ superober.errors = <<>>
              /\ superober.warnings = <<"all VRAD data is NaN">>
              /\ isallnan3D(data.svrad.meas)
        /\ (DbzAllNaN /\ VradAllNaN) =>
              /\ Len(superober.errors) = 1
              /\ superober.warnings = <<>>
        /\ (data.dbz.nel = 0 /\ data.vrad.nel = 0) =>
              superober.errors = <<"no data to superob">>

\* both moments are present, the DBZ bin holds a quality but no value and
\* the VRAD bin holds a velocity: the coarse DBZ cell is counted as dry and
\* still holds no value
C23_Witness ==
    /\ Superobed
    /\ data.dbz.nel = 1 /\ data.vrad.nel = 1
    /\ DbzAllNaN /\ ~VradAllNaN
    /\ data.dbz.quals[0][0][0] = Dbl(1)
    /\ data.sdbz.quals[0][0][0] = Dbl(1)
    /\ isnan(data.sdbz.meas[0][0][0])
    /\ ~isnan(data.svrad.meas[0][0][0])


\* ---------------------------------------------------------------------
\* The means of superob() and their counts
\* ---------------------------------------------------------------------

\* the rectangle of the coarse cell c lies inside the source cube
InsideCube(c, Naz) ==
    /\ 0 <= superober.startRayBorders[c[1]][c[3]][c[2]]
    /\ superober.endRayBorders[c[1]][c[3]][c[2]] <= Naz

\* nWet, nDry and nWetTh of the coarse DBZ cell c
WetBins(c) ==
    LET Wet(b) ==
            /\ DGt(RolledDbz(data.dbz.quals)[c[1]][b[1]][b[2]], settings.minQuality)
            /\ DGt(RolledDbz(data.dbz.meas)[c[1]][b[1]][b[2]], settings.dbzClearsky)
    IN  SelectSeq(SourceBins(c), Wet)

DryBins(c) ==
    LET Dry(b) ==
            /\ DGt(RolledDbz(data.dbz.quals)[c[1]][b[1]][b[2]], settings.minQuality)
            /\ ~DGt(RolledDbz(data.dbz.meas)[c[1]][b[1]][b[2]], settings.dbzClearsky)
    IN  SelectSeq(SourceBins(c), Dry)

WetThBins(c) ==
    LET WetTh(b) == DLt(RolledDbz(data.dbz.ths)[c[1]][b[1]][b[2]], Dbl(100000))
    IN  SelectSeq(WetBins(c), WetTh)

\* C24: superob() divides by no count that is zero: a coarse DBZ cell
\* without wet bins holds no wet mean (it is the smallest value of the cube
\* if it has a dry bin and is not emitted otherwise), a cell without wet TH
\* values holds no TH mean, and a coarse VRAD cell without good bins holds
\* no mean and quality 0; also with dbzPercentage = vradPercentage = 0
C24_MeansOnlyOverCountedBins ==
    Superobed =>
        /\ data.vrad.nel = 0 =>
              \A c \in CoarseCells(data.sdbz) :
                  InsideCube(c, data.dbz.nazMax) =>
                      /\ WetBins(c) = <<>> =>
                            IF DryBins(c) # <<>>
                            THEN /\ data.sdbz.meas[c[1]][c[2]][c[3]]
                                        = nanminmax3D(data.dbz.meas)[1]
                                 /\ data.sdbz.quals[c[1]][c[2]][c[3]] = Dbl(1)
                            ELSE /\ isnan(data.sdbz.meas[c[1]][c[2]][c[3]])
                                 /\ isnan(data.sdbz.quals[c[1]][c[2]][c[3]])
                      /\ WetThBins(c) = <<>> => isnan(data.sdbz.ths[c[1]][c[2]][c[3]])
        /\ \A c \in CoarseCells(data.svrad) :
              (InsideCube(c, data.vrad.nazMax) /\ DefinedVelocities(c) = <<>>) =>
                  /\ isnan(data.svrad.meas[c[1]][c[2]][c[3]])
                  /\ data.svrad.quals[c[1]][c[2]][c[3]] = Dbl(0)

\* with dbzPercentage = 0, a coarse DBZ cell whose only bin has no valid
\* quality is not emitted; with vradPercentage = 0, a coarse VRAD cell whose
\* only bin is NaN is not emitted
C24_Witness ==
    /\ Superobed
    /\ settings.dbzPercentage = Dbl(0)
    /\ settings.vradPercentage = Dbl(0)
    /\ \/ /\ data.sdbz.nel = 1
          /\ \E c \in CoarseCells(data.sdbz) :
                /\ WetBins(c) = <<>> /\ DryBins(c) = <<>>
                /\ isnan(data.sdbz.quals[c[1]][c[2]][c[3]])
       \/ /\ data.svrad.nel = 1
          /\ \E c \in CoarseCells(data.svrad) :
                /\ DefinedVelocities(c) = <<>>
                /\ data.svrad.quals[c[1]][c[2]][c[3]] = Dbl(0)

-----------------------------------------------------------------------------
(* The homogenizer.  An input file is its Conventions attribute and its    *)
(* datasets in the order of getDatasets; a dataset holds one data group,   *)
(* data1, of quantity DBZ or VRAD and no quality group, and each of its    *)
(* attributes where/elangle, what/startdate and what/starttime is there    *)
(* (<<v>>) or not (<<>>).  The namelist of the runs names no metadata      *)
(* attribute, so that an attribute is found in the input file or nowhere.  *)
(* A date is <<year, month, day>> and a time <<hour, minute, second>>, the *)
(* numbers to<int> reads from the substrings of YYYYMMDD and hhmmss.       *)

\* the most datasets of an input file
MaxDatasets == 2

ElAngleSet == {Ratio(13, 25)}

StartDateSet == {<<2019, 12, 31>>, <<2020, 1, 1>>}

StartTimeSet == {<<0, 0, 0>>, <<0, 5, 0>>}

Optional(S) == {<<>>} \cup {<<v>> : v \in S}

InDatasets ==
    [elangle : Optional(ElAngleSet), startdate : Optional(StartDateSet),
     starttime : Optional(StartTimeSet), quantity : {"DBZ", "VRAD"}]

InFiles ==
    UNION {[conventions : Optional({"ODIM_H5/V2_2"}), datasets : [1 .. n -> InDatasets]] :
           n \in 1 .. MaxDatasets}

\* a HoofHomogenizer after its constructor on an input file
NewHomogenizer(inFile) ==
    [warnings |-> <<>>, errors |-> <<>>, inFile |-> inFile, qtys |-> <<>>]

NoOutFile == [conventions |-> <<>>, datasets |-> <<>>]

\* HoofAux::round: std::round(d/p)*p, halves rounded away from zero
round(d, p) ==
    LET q == DDiv(d, p)
        r == Sign(q[1]) * ((2 * Abs(q[1]) + q[2]) \div (2 * q[2]))
    IN  DMul(Dbl(r), p)

\* _getAtt on an attribute of dataset i: the value found, and the error the
\* worker gets when it is found nowhere
_getAtt(worker, i, name) ==
    LET value == worker.inFile.datasets[i][name]
    IN  [value |-> value,
         worker |-> IF value = <<>>
                    THEN error(worker, <<"attribute not found", i, name>>)
                    ELSE worker]

\* _getRoundedElAngle
_getRoundedElAngle(worker, i) ==
    LET elAngle == _getAtt(worker, i, "elangle")
    IN  [value |-> IF elAngle.value # <<>> THEN <<round(elAngle.value[1], Ratio(1, 10))>>
                   ELSE <<>>,
         worker |-> elAngle.worker]

\* _getStartDatetime: both attributes are asked for
_getStartDatetime(worker, i) ==
    LET startdate == _getAtt(worker, i, "startdate")
        starttime == _getAtt(startdate.worker, i, "starttime")
    IN  [value |-> IF startdate.value # <<>> /\ starttime.value # <<>>
                   THEN <<startdate.value[1] \o starttime.value[1]>>
                   ELSE <<>>,
         worker |-> starttime.worker]

\* the constructor of HoofHomQty on the data group data1 of dataset i
HoofHomQty(name, elAngle, datetime, i) ==
    [name |-> name, elAngle |-> elAngle, datetime |-> datetime,
     oldDataset |-> i, oldData |-> "data1", newDataset |-> 0, newData |-> ""]

\* _getQtys from dataset i on: the worker and the quantities found
RECURSIVE _getQtys(_, _, _, _)
_getQtys(worker, i, dbzs, vrads) ==
    IF i > Len(worker.inFile.datasets)
    THEN [worker |-> worker, dbzs |-> dbzs, vrads |-> vrads]
    ELSE LET elAngle == _getRoundedElAngle(worker, i)
             startDatetime == _getStartDatetime(elAngle.worker, i)
             asked == startDatetime.worker
             qty == HoofHomQty(asked.inFile.datasets[i].quantity, elAngle.value[1],
                               startDatetime.value[1], i)
         IN  IF elAngle.value = <<>> \/ startDatetime.value = <<>>
             THEN _getQtys(warning(asked, <<"no date or elevation angle in dataset, skipping it", i>>),
                           i + 1, dbzs, vrads)
             ELSE IF qty.name = "DBZ"
             THEN _getQtys(asked, i + 1, Append(dbzs, qty), vrads)
             ELSE _getQtys(asked, i + 1, dbzs, Append(vrads, qty))

\* HoofHomQty::operator<
RECURSIVE FieldsLess(_, _, _)
FieldsLess(datetime, qDatetime, n) ==
    IF n > Len(datetime) THEN TRUE
    ELSE IF datetime[n] # qDatetime[n] THEN datetime[n] < qDatetime[n]
    ELSE FieldsLess(datetime, qDatetime, n + 1)

\* the same with false for equal datetimes
RECURSIVE FieldsStrictlyLess(_, _, _)
FieldsStrictlyLess(datetime, qDatetime, n) ==
    IF n > Len(datetime) THEN FALSE
    ELSE IF datetime[n] # qDatetime[n] THEN datetime[n] < qDatetime[n]
    ELSE FieldsStrictlyLess(datetime, qDatetime, n + 1)

Less(this, qty) == FieldsLess(this.datetime, qty.datetime, 1)

Orders(n) ==
    {p \in [1 .. n -> 1 .. n] : \A i, j \in 1 .. n : p[i] = p[j] => i = j}

\* std::sort with operator<: the orders the vector can be left in.  When
\* two elements are each less than the other the comparison is no strict
\* weak ordering and the behaviour is undefined: any order can come out.
std_sort(qtys) ==
    LET n == Len(qtys)
        undefined == \E i, j \in 1 .. n : i # j /\ Less(qtys[i], qtys[j]) /\ Less(qtys[j], qtys[i])
    IN  {[i \in 1 .. n |-> qtys[p[i]]] :
         p \in {p \in Orders(n) :
                  undefined \/ \A i, j \in 1 .. n : i < j => ~Less(qtys[p[j]], qtys[p[i]])}}

\* _checkDbzs without a TH quantity in the file: every DBZ quantity is left
\* out with a warning
RECURSIVE _checkDbzs(_, _, _)
_checkDbzs(worker, dbzs, i) ==
    IF i > Len(dbzs) THEN worker
    ELSE _checkDbzs(warning(worker, <<"DBZ quantity has no corresponding TH group, omitting it",
                                      dbzs[i].oldDataset>>),
                    dbzs, i + 1)

\* _recountQtys on the VRAD quantities, no DBZ quantity being left
_recountQtys(vrads) ==
    [i \in 1 .. Len(vrads) |-> [vrads[i] EXCEPT !.newDataset = i, !.newData = "data1"]]

\* main opens the next file and constructs the homogenizer
OpenFile ==
    /\ pc = "main.loop"
    /\ main.entries # <<>>
    /\ main' = [main EXCEPT !.entries = Tail(@), !.allFiles = @ + 1]
    /\ homogenizer' = NewHomogenizer(Head(main.entries))
    /\ outFile' = NoOutFile
    /\ logFile' = <<>>
    /\ pc' = "homogenizer.sort"
    /\ UNCHANGED <<settings, data, dealiaser, superober>>

\* HoofHomogenizer::sort
HomogenizerSort ==
    /\ pc = "homogenizer.sort"
    /\ LET found == _getQtys(homogenizer, 1, <<>>, <<>>)
       IN  \E dbzs \in std_sort(found.dbzs), vrads \in std_sort(found.vrads) :
              homogenizer' = [_checkDbzs(found.worker, dbzs, 1) EXCEPT
                                 !.qtys = _recountQtys(vrads)]
    /\ pc' = "homogenizer.checkAndWrite"
    /\ UNCHANGED <<settings, data, dealiaser, superober, outFile, logFile, main>>

\* HoofHomogenizer::checkAndWrite
HomogenizerCheckAndWrite ==
    /\ pc = "homogenizer.checkAndWrite"
    /\ LET conventions == homogenizer.inFile.conventions
           checked == IF conventions # <<>> THEN homogenizer
                      ELSE error(homogenizer, <<"Conventions attribute not found">>)
       IN  /\ homogenizer' = IF Len(homogenizer.qtys) = 0
                             THEN error(checked, <<"no quantities to write to output file">>)
                             ELSE checked
           /\ outFile' = [conventions |-> conventions,
                          datasets |-> [i \in 1 .. Len(homogenizer.qtys) |->
                                          <<homogenizer.qtys[i].oldDataset,
                                            homogenizer.qtys[i].oldData>>]]
    /\ pc' = "main.handleErrors"
    /\ UNCHANGED <<settings, data, dealiaser, superober, logFile, main>>

\* main after checkAndWrite: handleErrors writes the log and ends the work
\* on the file when the homogenizer has errors
HomogenizerHandleErrors ==
    /\ pc = "main.handleErrors"
    /\ IF handleErrors(homogenizer)
       THEN /\ logFile' = output(homogenizer, logFile)
            /\ pc' = "main.loop"
       ELSE /\ logFile' = logFile
            /\ pc' = "homogenizer.output"
    /\ UNCHANGED <<settings, data, dealiaser, superober, outFile, homogenizer, main>>

\* main without dealiasing and superobing: the homogenizer's log
HomogenizerOutput ==
    /\ pc = "homogenizer.output"
    /\ logFile' = output(homogenizer, logFile)
    /\ pc' = "main.finish"
    /\ UNCHANGED <<settings, data, dealiaser, superober, outFile, homogenizer, main>>

InitHomog ==
    /\ \E printLogWarnings \in BOOLEAN :
          settings = [DefaultSettings EXCEPT !.printLogWarnings = printLogWarnings]
    /\ \E inFile \in InFiles :
          main = [entries |-> <<inFile>>, allFiles |-> 0, goodFiles |-> 0]
    /\ data = NoData
    /\ dealiaser = NoWorker
    /\ superober = NoWorker
    /\ homogenizer = NoWorker
    /\ outFile = NoOutFile
    /\ logFile = <<>>
    /\ pc = "main.loop"

NextHomog ==
    \/ OpenFile
    \/ HomogenizerSort
    \/ HomogenizerCheckAndWrite
    \/ HomogenizerHandleErrors
    \/ HomogenizerOutput
    \/ FinishFile

SpecHomog == InitHomog /\ [][NextHomog]_vars

-----------------------------------------------------------------------------
(* C30 *)

\* the DBZ and VRAD quantities sort() compares: those _getQtys finds in the
\* input file
ComparedQtys ==
    LET found == _getQtys(NewHomogenizer(homogenizer.inFile), 1, <<>>, <<>>)
    IN  {found.dbzs[i] : i \in DOMAIN found.dbzs} \cup {found.vrads[i] : i \in DOMAIN found.vrads}

Sorted == pc \in {"homogenizer.checkAndWrite", "main.handleErrors", "homogenizer.output"}

\* C30: operator< of two quantities is true exactly when the datetime of
\* the first is strictly earlier than that of the second; in particular no
\* quantity is less than itself and no two are each less than the other,
\* as std::sort requires of its comparison.
C30_LessIsStrictlyEarlier ==
    Sorted =>
        \A this \in ComparedQtys, qty \in ComparedQtys :
           /\ Less(this, qty) <=> FieldsStrictlyLess(this.datetime, qty.datetime, 1)
           /\ ~(Less(this, qty) /\ Less(qty, this))

-----------------------------------------------------------------------------
(* C25 *)

\* dataset i of the input file has no elevation angle or no start date or
\* time
Lacking(i) ==
    LET dataset == homogenizer.inFile.datasets[i]
    IN  dataset.elangle = <<>> \/ dataset.startdate = <<>> \/ dataset.starttime = <<>>

\* the datasets sort() keeps: the complete ones of quantity VRAD
KeptDatasets ==
    {i \in DOMAIN homogenizer.inFile.datasets :
        ~Lacking(i) /\ homogenizer.inFile.datasets[i].quantity = "VRAD"}

FileDone == pc = "main.loop" /\ main.allFiles = 1

\* C25: a dataset without elevation angle or start date or time is skipped
\* with a warning and without an error; when the file has its Conventions
\* and a dataset that is kept, the kept datasets are written and the file
\* is counted as good.
C25_SkippedDatasetOnlyWarns ==
    FileDone =>
        \A i \in DOMAIN homogenizer.inFile.datasets :
           Lacking(i) =>
              /\ \E w \in DOMAIN homogenizer.warnings :
                    homogenizer.warnings[w] =
                       <<"no date or elevation angle in dataset, skipping it", i>>
              /\ \A e \in DOMAIN homogenizer.errors :
                    homogenizer.errors[e][1] # "attribute not found"
              /\ (homogenizer.inFile.conventions # <<>> /\ KeptDatasets # {}) =>
                    /\ main.goodFiles = 1
                    /\ {outFile.datasets[n][1] : n \in DOMAIN outFile.datasets} = KeptDatasets

-----------------------------------------------------------------------------
(* C26 *)

\* f3 of a bin, vNy cos(pi v / vNy) / pi, times pi as Ds is kept
F3(e, a, r) ==
    DMul(data.vrad.vnys[e], cos(DDiv(data.vrad.meas[e][a][r], data.vrad.vnys[e])))

\* C26: on an elevation of at least 3 rays, evenly spaced by 2 pi / naz,
\* the azimuth difference that divides in D is twice the spacing at every
\* ray, the first and the last included, and D is the difference of f3 at
\* the next and the previous ray over it.
C26_DivisorSameOnEveryRay ==
    QtysCalculated =>
        \A b \in VradBins :
            LET naz == data.vrad.naz[b[1]]
                next == (b[2] + 1) % naz
                prev == (b[2] - 1 + naz) % naz
            IN  naz >= 3 =>
                   /\ daz(data.vrad.azimuths[b[1]], b[2], naz) = Ratio(4, naz)
                   /\ (\A m \in NeighbourMeas(b) : ~isnan(m)) =>
                          At(dealiaser.Ds, b) =
                             DDiv(DSub(F3(b[1], next, b[3]), F3(b[1], prev, b[3])),
                                  Ratio(4, naz))

-----------------------------------------------------------------------------
(* C27 *)

\* the bins with a measurement within the Nyquist velocity of their
\* elevation, a model velocity and a dealiased velocity
UnfoldedBins ==
    {b \in VradBins :
        /\ ~isnan(At(data.vrad.meas, b))
        /\ ~isnan(At(data.wModels, b))
        /\ ~isnan(At(data.dvrads, b))
        /\ DLe(DAbs(At(data.vrad.meas, b)), data.vrad.vnys[b[1]])}

WithinOneNyquist(b) ==
    DLe(DAbs(DSub(At(data.dvrads, b), At(data.wModels, b))), data.vrad.vnys[b[1]])

\* C27: after dealias(), at every bin with a measurement of at most vny[e]
\* in magnitude and a model velocity, the dealiased velocity is within
\* vny[e] of the model velocity.
C27_WithinOneNyquist ==
    Dealiased => \A b \in UnfoldedBins : WithinOneNyquist(b)

\* C27, amended: the same whenever maxWind is at least the smallest Nyquist
\* velocity of the volume, so that dealias tries the multipliers -1 and 1.
C27_WithinOneNyquistFromVnyMin ==
    (Dealiased /\ DGe(settings.maxWind, DMin({data.vrad.vnys[e] : e \in DOMAIN data.vrad.vnys}))) =>
        \A b \in UnfoldedBins : WithinOneNyquist(b)

\* a bin that is unfolded by one Nyquist interval at least, to within
\* vny[e] of its model velocity
C27_Witness ==
    /\ Dealiased
    /\ DGe(settings.maxWind, DMin({data.vrad.vnys[e] : e \in DOMAIN data.vrad.vnys}))
    /\ \E b \in UnfoldedBins :
          /\ At(data.dvrads, b) # At(data.vrad.meas, b)
          /\ WithinOneNyquist(b)

-----------------------------------------------------------------------------
(* C29 *)

\* the quality bytes written for the VRAD dataset of elevation i
QualityBytes(i) == outFile[<<<<"VRAD", i>>, "/quality1", "data">>]

\* the superober writes the byte 255 for a quality of 1
SuperoberWritesFullQuality ==
    pc = "superober.written" =>
        \A i \in 0 .. data.vrad.nel - 1 :
           \A c \in CellsOf(Field2D(data.svrad.quals, i, data.svrad.naz[i], data.svrad.nr[i])) :
              data.svrad.quals[i][c[1]][c[2]] = Dbl(1) => QualityBytes(i)[c[1]][c[2]] = 255

\* C29: in the quality field the dealiaser writes with gain 1/255 and
\* offset 0, a cell with a dealiased velocity holds the byte 255, which
\* reads back as the quality 1, and a cell without one the byte 0; the
\* superober writes the quality 1 as the same byte.
C29_DealiasedQualityIsFull ==
    /\ SuperoberWritesFullQuality
    /\ pc = "dealiaser.output" =>
          \A i \in 0 .. data.vrad.nel - 1 :
             /\ outFile[<<<<"VRAD", i>>, "/quality1/what", "gain">>] = Ratio(1, 255)
             /\ outFile[<<<<"VRAD", i>>, "/quality1/what", "offset">>] = Dbl(0)
             /\ \A c \in CellsOf(Field2D(data.dvrads, i, data.vrad.naz[i], data.vrad.nr[i])) :
                   QualityBytes(i)[c[1]][c[2]] =
                      IF isnan(data.dvrads[i][c[1]][c[2]]) THEN 0 ELSE 255

=============================================================================
